---- MODULE Spec2Model ----
(***************************************************************************)
(* Model of gdb-load-ovl: the two gdb commands `ovl` (gdb_load_ovl.py) and *)
(* `z64ovl` (gdb_load_z64overlay.py) with the breakpoint hooks of the      *)
(* tracking variant.                                                       *)
(*                                                                         *)
(* Python strings are modelled as sequences of one-character strings, so   *)
(* that upper(), split(), strip(), removeprefix(), the regular expressions *)
(* and the hexadecimal conversions are computed as the code computes them. *)
(* The host debugger (gdb) is the environment: every answer it gives to a  *)
(* query is an input of the action, drawn from a small set.                *)
(***************************************************************************)
EXTENDS Integers, Sequences, FiniteSets, Bags, TLC

\* ------------------------------------------------------------------ bounds

\* Runtime load addresses are 0..MaxAddr; in an overlay table entry 0 is
\* "not loaded" (loadedRamAddr), in a frame it is an address like any other.
MaxAddr == 2

\* ------------------------------------------------------- string constants

S_AUTO_ON == <<"A","U","T","O"," ","O","N">>
S_AUTO_OFF == <<"A","U","T","O"," ","O","F","F">>
S_PAUSE == <<"P","A","U","S","E">>
S_KALEIDO == <<"K","A","L","E","I","D","O">>
S_KALEIDO_SCOPE == <<"K","A","L","E","I","D","O","_","S","C","O","P","E">>
S_ACTOR_PLAYER == <<"A","C","T","O","R","_","P","L","A","Y","E","R">>
S_GAMESTATE == <<"G","A","M","E","S","T","A","T","E">>
S_ACTOR == <<"A","C","T","O","R">>
S_EFFECT == <<"E","F","F","E","C","T">>
S_in_section == <<"i","n"," ","s","e","c","t","i","o","n"," ">>
S_of == <<" ","o","f"," ">>
S_dotdot == <<".",".">>
S_0x == <<"0","x">>
S_Segment == <<"S","e","g","m","e","n","t">>
S_Start == <<"S","t","a","r","t">>
S_dot_o == <<".","o">>

\* ---------------------------------------------------- Python str helpers

LowerChars == <<"a","b","c","d","e","f","g","h","i","j","k","l","m",
                "n","o","p","q","r","s","t","u","v","w","x","y","z">>
UpperChars == <<"A","B","C","D","E","F","G","H","I","J","K","L","M",
                "N","O","P","Q","R","S","T","U","V","W","X","Y","Z">>

CharUpper(c) ==
    IF \E i \in 1..Len(LowerChars) : LowerChars[i] = c
    THEN UpperChars[CHOOSE i \in 1..Len(LowerChars) : LowerChars[i] = c]
    ELSE c

CharLower(c) ==
    IF \E i \in 1..Len(UpperChars) : UpperChars[i] = c
    THEN LowerChars[CHOOSE i \in 1..Len(UpperChars) : UpperChars[i] = c]
    ELSE c

\* str.upper() / str.lower() of a text whose letters are those of ASCII
StrUpper(s) == [i \in 1..Len(s) |-> CharUpper(s[i])]
StrLower(s) == [i \in 1..Len(s) |-> CharLower(s[i])]

\* s[i:] starts with sep
StartsWithAt(s, sep, i) ==
    /\ i + Len(sep) - 1 <= Len(s)
    /\ SubSeq(s, i, i + Len(sep) - 1) = sep

\* The first position >= i where sep occurs in s, 0 when there is none
RECURSIVE StrFindFrom(_, _, _)
StrFindFrom(s, sep, i) ==
    IF i + Len(sep) - 1 > Len(s) THEN 0
    ELSE IF SubSeq(s, i, i + Len(sep) - 1) = sep THEN i
    ELSE StrFindFrom(s, sep, i + 1)

\* str.find(sep) + 1: the first position where sep occurs, 0 when it does not
StrFind(s, sep) == StrFindFrom(s, sep, 1)

\* str.split(sep) for a non-empty sep
RECURSIVE StrSplit(_, _)
StrSplit(s, sep) ==
    LET i == StrFind(s, sep) IN
    IF i = 0 THEN <<s>>
    ELSE <<SubSeq(s, 1, i - 1)>> \o StrSplit(SubSeq(s, i + Len(sep), Len(s)), sep)

\* str.partition(sep): <<head, sep, tail>>, <<s, "", "">> when sep is absent
StrPartition(s, sep) ==
    LET i == StrFind(s, sep) IN
    IF i = 0 THEN <<s, <<>>, <<>>>>
    ELSE <<SubSeq(s, 1, i - 1), sep, SubSeq(s, i + Len(sep), Len(s))>>

\* The characters str.strip() and int() remove, among those of U+0001..U+00FF
\* (the texts of the model hold no others): space, tab, line feed, carriage
\* return, form feed, then U+000B, U+001C..U+001F, U+0085 and U+00A0
Whitespace ==
    {" ", "\t", "\n", "\r", "\f",
     "", "", "", "", "", "", " "}

RECURSIVE StrLStrip(_)
StrLStrip(s) ==
    IF s # <<>> /\ Head(s) \in Whitespace THEN StrLStrip(Tail(s)) ELSE s

RECURSIVE StrRStrip(_)
StrRStrip(s) ==
    IF s # <<>> /\ s[Len(s)] \in Whitespace
    THEN StrRStrip(SubSeq(s, 1, Len(s) - 1)) ELSE s

\* str.strip()
StrStrip(s) == StrLStrip(StrRStrip(s))

\* str.removeprefix(p)
StrRemovePrefix(s, p) ==
    IF StartsWithAt(s, p, 1) THEN SubSeq(s, Len(p) + 1, Len(s)) ELSE s

\* --------------------------------------------------- hexadecimal numbers

HexDigits == <<"0","1","2","3","4","5","6","7","8","9","a","b","c","d","e","f">>

IsHexDigit(c) == \E i \in 1..Len(HexDigits) : HexDigits[i] = CharLower(c)
IsDecDigit(c) == \E i \in 1..10 : HexDigits[i] = c

HexDigitValue(c) == (CHOOSE i \in 1..Len(HexDigits) : HexDigits[i] = CharLower(c)) - 1

\* Digits as int() reads them: single underscores may stand between digits
IsHexDigits(s) ==
    /\ s # <<>>
    /\ IsHexDigit(s[1])
    /\ IsHexDigit(s[Len(s)])
    /\ \A i \in 1..Len(s) :
           IsHexDigit(s[i]) \/ (s[i] = "_" /\ i > 1 /\ s[i - 1] # "_")

RECURSIVE HexDigitsValue(_)
HexDigitsValue(s) ==
    IF s = <<>> THEN 0
    ELSE 16 * HexDigitsValue(SubSeq(s, 1, Len(s) - 1)) + HexDigitValue(s[Len(s)])

RECURSIVE FormatHexDigits(_)
FormatHexDigits(n) ==
    IF n < 16 THEN <<HexDigits[n + 1]>>
    ELSE FormatHexDigits(n \div 16) \o <<HexDigits[(n % 16) + 1]>>

\* f"{n:#x}" and hex(n)
FormatHex(n) ==
    IF n < 0 THEN <<"-">> \o S_0x \o FormatHexDigits(-n)
    ELSE S_0x \o FormatHexDigits(n)

\* int(s, 16): surrounding whitespace, an optional sign and an optional 0x
\* prefix are accepted, and single underscores between the digits and
\* between the prefix and the first digit; anything else is a ValueError
\* (ok = FALSE). v is what follows the 0x prefix.
IntBase16Digits(neg, v) ==
    IF IsHexDigits(IF v # <<>> /\ Head(v) = "_" THEN Tail(v) ELSE v)
    THEN [ok |-> TRUE,
          val |-> IF neg THEN -HexDigitsValue(SelectSeq(v, IsHexDigit))
                  ELSE HexDigitsValue(SelectSeq(v, IsHexDigit))]
    ELSE [ok |-> FALSE, val |-> 0]

\* u is what follows the sign: without the prefix no underscore may lead
IntBase16Prefix(neg, u) ==
    IF StartsWithAt(StrLower(u), S_0x, 1)
    THEN IntBase16Digits(neg, SubSeq(u, 3, Len(u)))
    ELSE IF u # <<>> /\ Head(u) = "_" THEN [ok |-> FALSE, val |-> 0]
    ELSE IntBase16Digits(neg, u)

IntBase16Sign(t) ==
    IntBase16Prefix(t # <<>> /\ Head(t) = "-",
                    IF t # <<>> /\ Head(t) \in {"-", "+"} THEN Tail(t) ELSE t)

\* The whitespace int() skips at both ends: that of str.strip() without
\* U+001C..U+001F
RECURSIVE IntStrip(_)
IntStrip(s) ==
    IF s # <<>> /\ Head(s) \in Whitespace \ {"", "", "", ""}
    THEN IntStrip(Tail(s))
    ELSE IF s # <<>> /\ s[Len(s)] \in Whitespace \ {"", "", "", ""}
    THEN IntStrip(SubSeq(s, 1, Len(s) - 1))
    ELSE s

IntBase16(s) == IntBase16Sign(IntStrip(s))

\* ------------------------------------------------- gdb_load_z64overlay.py

\* AUTOLOAD_ENABLED_BY_DEFAULT set the other way
AUTOLOAD_ENABLED_FROM_START == TRUE

AUTOLOAD_ENABLED_BY_DEFAULT == FALSE

\* class SectionType, in definition order: (section_name, linker_script_name)
SectionType ==
    << [section_name |-> ".text",   linker_script_name |-> <<"T","e","x","t">>],
       [section_name |-> ".data",   linker_script_name |-> <<"D","a","t","a">>],
       [section_name |-> ".rodata", linker_script_name |-> <<"R","o","D","a","t","a">>],
       [section_name |-> ".bss",    linker_script_name |-> <<"B","s","s">>] >>

\* The result of a helper: raised = "" and a value, or the exception raised.
Ok(v) == [raised |-> "", val |-> v]
Raise(e) == [raised |-> e, val |-> <<>>]

\* A reply of gdb.execute(..., to_string=True): the text, or err for gdb.error.
Reply(text) == [err |-> FALSE, out |-> text]
GdbError == [err |-> TRUE, out |-> <<>>]

\* get_sym_addr_from_name(name): symbols is the host's answer to
\* `printf "%x", &name` for each name it knows; an unknown name is a gdb.error.
get_sym_addr_from_int(n) ==
    IF n.ok THEN [raised |-> "", val |-> n.val]
    ELSE [raised |-> "ValueError", val |-> 0]

get_sym_addr_from_name(name, symbols) ==
    IF name \notin DOMAIN symbols THEN [raised |-> "gdb.error", val |-> 0]
    ELSE get_sym_addr_from_int(IntBase16(symbols[name]))

\* The length of the run of hexadecimal digits of s that starts at position i.
RECURSIVE HexRunLen(_, _)
HexRunLen(s, i) ==
    IF 1 <= i /\ i <= Len(s) /\ IsHexDigit(s[i]) THEN 1 + HexRunLen(s, i + 1) ELSE 0

\* VALUE_SYM_FMT_PATTERN.fullmatch(s), flags=re.IGNORECASE:
\*   (0x[0-9a-f]+)(?: <([^+]+)(?:\+(\d+))?>)?
\* has_sym / has_offset tell whether the optional groups took part.
NoMatch == [match |-> FALSE, addr_str |-> <<>>, has_sym |-> FALSE, sym_name |-> <<>>,
            has_offset |-> FALSE, offset_str |-> <<>>]

\* The group <([^+]+)(?:\+(\d+))?> with parts the partition of its inside at
\* the first "+"
ValueSymFmtSym(addr_str, parts) ==
    IF parts[2] = <<>>
    THEN [match |-> TRUE, addr_str |-> addr_str, has_sym |-> TRUE,
          sym_name |-> parts[1], has_offset |-> FALSE, offset_str |-> <<>>]
    ELSE IF /\ parts[1] # <<>>
            /\ parts[3] # <<>>
            /\ \A i \in 1..Len(parts[3]) : IsDecDigit(parts[3][i])
    THEN [match |-> TRUE, addr_str |-> addr_str, has_sym |-> TRUE,
          sym_name |-> parts[1], has_offset |-> TRUE, offset_str |-> parts[3]]
    ELSE NoMatch

\* What follows the address: nothing, or " <...>"
ValueSymFmtRest(addr_str, rest) ==
    IF rest = <<>>
    THEN [match |-> TRUE, addr_str |-> addr_str, has_sym |-> FALSE,
          sym_name |-> <<>>, has_offset |-> FALSE, offset_str |-> <<>>]
    ELSE IF ~(Len(rest) >= 4 /\ SubSeq(rest, 1, 2) = <<" ", "<">>
              /\ rest[Len(rest)] = ">")
    THEN NoMatch
    ELSE ValueSymFmtSym(addr_str,
                        StrPartition(SubSeq(rest, 3, Len(rest) - 1), <<"+">>))

\* The address 0x[0-9a-f]+, of n digits
ValueSymFmtAddr(s, n) ==
    IF ~(StartsWithAt(StrLower(s), S_0x, 1) /\ n > 0) THEN NoMatch
    ELSE ValueSymFmtRest(SubSeq(s, 1, 2 + n), SubSeq(s, 3 + n, Len(s)))

VALUE_SYM_FMT_PATTERN(s) == ValueSymFmtAddr(s, HexRunLen(s, 3))

\* int(offset_str) != 0 for a string of decimal digits
DecIsZero(s) == \A i \in 1..Len(s) : s[i] = "0"

\* Lines 61-80 of get_sym_name_from_addr, for the match m
get_sym_name_from_match(addr, m) ==
    IF ~m.match THEN Raise("ValueError")
    ELSE IF StrLower(m.addr_str) # FormatHex(addr) THEN Raise("ValueError")
    ELSE IF ~m.has_sym THEN Raise("ValueError")
    ELSE IF m.has_offset
         THEN (IF DecIsZero(m.offset_str) THEN Raise("AssertionError")
               ELSE Raise("ValueError"))
    ELSE Ok(m.sym_name)

\* get_sym_name_from_addr(addr): s is the host's Value.format_string() text.
get_sym_name_from_addr(addr, s) ==
    get_sym_name_from_match(addr, VALUE_SYM_FMT_PATTERN(s))

\* get_sym_section returning all of parts[1], without the split of line 96
get_sym_section_parts_whole(parts) ==
    IF Len(parts) # 2 THEN Raise("ValueError")
    ELSE Ok(StrStrip(parts[2]))

\* get_sym_section(sym): info_sym is the host's reply to `info symbol <sym>`.
get_sym_section_parts(parts) ==
    IF Len(parts) # 2 THEN Raise("ValueError")
    ELSE Ok(StrStrip(StrSplit(parts[2], S_of)[1]))

get_sym_section(info_sym) ==
    IF info_sym.err THEN Raise("gdb.error")
    ELSE get_sym_section_parts(StrSplit(info_sym.out, S_in_section))

\* str.splitlines(): a line ends at line feed, carriage return (with the
\* line feed that follows it, if any), form feed, U+000B, U+001C..U+001E or
\* U+0085. StrSplitLinesAt(s, i) splits at the line end s[i]; i = 0 when s
\* holds none.
RECURSIVE StrSplitLinesAt(_, _)
StrSplitLines(s) ==
    StrSplitLinesAt(s,
        IF \E k \in 1..Len(s) :
               s[k] \in {"\n", "\r", "\f", "", "", "", "", ""}
        THEN CHOOSE k \in 1..Len(s) :
               /\ s[k] \in {"\n", "\r", "\f", "", "", "", "", ""}
               /\ \A j \in 1..(k - 1) :
                      s[j] \notin {"\n", "\r", "\f", "", "", "", "", ""}
        ELSE 0)

StrSplitLinesAt(s, i) ==
    IF s = <<>> THEN <<>>
    ELSE IF i = 0 THEN <<s>>
    ELSE IF s[i] = "\r" /\ i < Len(s) /\ s[i + 1] = "\n"
    THEN <<SubSeq(s, 1, i - 1)>> \o StrSplitLines(SubSeq(s, i + 2, Len(s)))
    ELSE <<SubSeq(s, 1, i - 1)>> \o StrSplitLines(SubSeq(s, i + 1, Len(s)))

\* INFO_FILE_LINE_PATTERN.fullmatch(line), re.IGNORECASE:
\*   (0x[0-9a-f]+) - (0x[0-9a-f]+) is (.*)
\* (the . of the last group matches every character but the line feed)
NoLineMatch == [match |-> FALSE, start_str |-> <<>>, end_str |-> <<>>, section |-> <<>>]

\* The match, with n1 and n2 the numbers of digits of the two addresses
InfoFileLineGroups(line, n1, n2) ==
    IF ~(StartsWithAt(StrLower(line), S_0x, 1) /\ n1 > 0) THEN NoLineMatch
    ELSE IF ~StartsWithAt(line, <<" ", "-", " ">>, 3 + n1) THEN NoLineMatch
    ELSE IF ~(StartsWithAt(StrLower(line), S_0x, n1 + 6) /\ n2 > 0) THEN NoLineMatch
    ELSE IF ~StartsWithAt(StrLower(line), <<" ", "i", "s", " ">>, n1 + n2 + 8)
    THEN NoLineMatch
    ELSE IF \E k \in (n1 + n2 + 12)..Len(line) : line[k] = "\n" THEN NoLineMatch
    ELSE [match |-> TRUE, start_str |-> SubSeq(line, 1, 2 + n1),
          end_str |-> SubSeq(line, n1 + 6, n1 + n2 + 7),
          section |-> SubSeq(line, n1 + n2 + 12, Len(line))]

InfoFileLineSecond(line, n1) == InfoFileLineGroups(line, n1, HexRunLen(line, n1 + 8))

INFO_FILE_LINE_PATTERN(line) == InfoFileLineSecond(line, HexRunLen(line, 3))

\* int(s, 16) & 0xFFFF_FFFF for s = 0x<digits>: the value of the last eight
\* digits.
HexMaskU32(s) ==
    LET d == SubSeq(s, 3, Len(s)) IN
    HexDigitsValue(IF Len(d) > 8 THEN SubSeq(d, Len(d) - 7, Len(d)) ELSE d)

\* The test of line 124 with the end of the range included
SectionLineContains_closed(m, addr) ==
    m.match /\ HexMaskU32(m.start_str) <= addr /\ addr <= HexMaskU32(m.end_str)

\* Lines 114-126 of get_section_by_addr: whether the line names a section
\* that contains addr
SectionLineContains(m, addr) ==
    m.match /\ HexMaskU32(m.start_str) <= addr /\ addr < HexMaskU32(m.end_str)

RECURSIVE FirstSectionContaining(_, _)
FirstSectionContaining(lines, addr) ==
    IF lines = <<>> THEN Raise("ValueError")
    ELSE IF SectionLineContains(INFO_FILE_LINE_PATTERN(Head(lines)), addr)
    THEN Ok(INFO_FILE_LINE_PATTERN(Head(lines)).section)
    ELSE FirstSectionContaining(Tail(lines), addr)

\* get_section_by_addr(addr): info_file is the host's reply to `info file`.
get_section_by_addr(addr, info_file) ==
    IF info_file.err THEN Raise("gdb.error")
    ELSE FirstSectionContaining(StrSplitLines(info_file.out), addr)

\* get_section_address(ovl_name, section_name)
get_section_address(ovl_name, section_name, symbols) ==
    get_sym_addr_from_name(
        <<"_">> \o ovl_name \o S_Segment \o section_name \o S_Start, symbols)

\* ------------------------------------------------------- pathlib.Path
\* Paths are normalised POSIX paths (no "//", no "." or ".." components, no
\* trailing "/"), as gdb reports them.

LastIndexOf(s, c) ==
    IF \E i \in 1..Len(s) : s[i] = c
    THEN CHOOSE i \in 1..Len(s) : s[i] = c /\ \A j \in (i + 1)..Len(s) : s[j] # c
    ELSE 0

\* Path(p).parent
PathParent(p) ==
    LET i == LastIndexOf(p, "/") IN
    IF i = 0 THEN <<".">> ELSE IF i = 1 THEN <<"/">> ELSE SubSeq(p, 1, i - 1)

\* Path(a) / b
PathJoin(a, b) ==
    IF b # <<>> /\ Head(b) = "/" THEN b
    ELSE IF a = <<".">> THEN b
    ELSE IF a[Len(a)] = "/" THEN a \o b
    ELSE a \o <<"/">> \o b

\* Path(p).name and Path(p).stem
PathName(p) == SubSeq(p, LastIndexOf(p, "/") + 1, Len(p))

PathStem(p) ==
    LET name == PathName(p)
        i == LastIndexOf(name, ".")
    IN  IF 1 < i /\ i < Len(name) THEN SubSeq(name, 1, i - 1) ELSE name

\* Path(p).with_suffix(suffix)
PathWithSuffix(p, suffix) ==
    SubSeq(p, 1, LastIndexOf(p, "/")) \o PathStem(p) \o suffix

\* ------------------------------------------------------------ the inputs

\* Link-time start addresses (vramStart) of the overlays of the elf
Vrams == {8, 12}

\* overlay_table[index]: loadedRamAddr (0 when not loaded) and vramStart
Entries == [loadedRamAddr : 0..MaxAddr, vramStart : Vrams]
NoEntry == [loadedRamAddr |-> 0, vramStart |-> 0]

\* The command arguments tried, in several letter cases
A_auto_on == <<"a","u","t","o"," ","o","n">>
A_Auto_Off == <<"A","u","t","o"," ","O","f","f">>
A_Pause == <<"P","a","u","s","e">>
A_kaleido == <<"k","a","l","e","i","d","o">>
A_Kaleido_Scope == <<"K","a","l","e","i","d","o","_","S","c","o","p","e">>
A_actor_player == <<"a","c","t","o","r","_","p","l","a","y","e","r">>
A_ACTOR_EN_A == <<"A","C","T","O","R","_","E","N","_","A">>
A_gamestate_x == <<"g","a","m","e","s","t","a","t","e","_","x">>
A_Effect_Ss_D == <<"E","f","f","e","c","t","_","S","s","_","D">>
A_FOO_BAR == <<"F","O","O","_","B","A","R">>
A_ACTOR_NOPE == <<"A","C","T","O","R","_","N","O","P","E">>
A_X == <<"_","X">>

A_PAUSE == <<"P","A","U","S","E">>
A_ACTOR_PLAYER == <<"A","C","T","O","R","_","P","L","A","Y","E","R">>

Args == {A_auto_on, A_Auto_Off, A_Pause, A_PAUSE, A_kaleido, A_Kaleido_Scope,
         A_actor_player, A_ACTOR_PLAYER, A_ACTOR_EN_A, A_gamestate_x,
         A_Effect_Ss_D, A_FOO_BAR, A_ACTOR_NOPE, A_X, <<>>}

\* The arguments tried together with every answer of the host: the two AUTO
\* arguments, an enum name that selects a table entry and one that does not
CoreArgs == {A_auto_on, A_Auto_Off, A_ACTOR_EN_A, A_FOO_BAR}

\* The enum values of the elf by name (gdb.lookup_symbol(name)[0].value()):
\* the elf "game" has the game's enums only, the elf "more" also FOO_BAR and _X.
GameEnums ==
    [n \in {<<"A","C","T","O","R","_","P","L","A","Y","E","R">>, <<"A","C","T","O","R","_","E","N","_","A">>, <<"G","A","M","E","S","T","A","T","E","_","X">>, <<"E","F","F","E","C","T","_","S","S","_","D">>} |->
        IF n = <<"A","C","T","O","R","_","P","L","A","Y","E","R">> THEN 0
        ELSE IF n = <<"A","C","T","O","R","_","E","N","_","A">> THEN 1
        ELSE IF n = <<"G","A","M","E","S","T","A","T","E","_","X">> THEN 2
        ELSE 3]

MoreEnums ==
    [n \in (DOMAIN GameEnums) \cup {<<"F","O","O","_","B","A","R">>, <<"_","X">>} |->
        IF n \in DOMAIN GameEnums THEN GameEnums[n] ELSE 1]

Enums == [game |-> GameEnums, more |-> MoreEnums]

ElfEnums == DOMAIN Enums

\* The host's printf answers for the linker symbols of the overlays oA (linked
\* at 8) and oB (linked at 12)
Symbols ==
    [n \in {<<"_","o","A","S","e","g","m","e","n","t","T","e","x","t","S","t","a","r","t">>,
            <<"_","o","A","S","e","g","m","e","n","t","D","a","t","a","S","t","a","r","t">>,
            <<"_","o","A","S","e","g","m","e","n","t","R","o","D","a","t","a","S","t","a","r","t">>,
            <<"_","o","A","S","e","g","m","e","n","t","B","s","s","S","t","a","r","t">>,
            <<"_","o","B","S","e","g","m","e","n","t","T","e","x","t","S","t","a","r","t">>,
            <<"_","o","B","S","e","g","m","e","n","t","D","a","t","a","S","t","a","r","t">>,
            <<"_","o","B","S","e","g","m","e","n","t","R","o","D","a","t","a","S","t","a","r","t">>,
            <<"_","o","B","S","e","g","m","e","n","t","B","s","s","S","t","a","r","t">>} |->
        IF n = <<"_","o","A","S","e","g","m","e","n","t","T","e","x","t","S","t","a","r","t">> THEN <<"8">>
        ELSE IF n = <<"_","o","A","S","e","g","m","e","n","t","D","a","t","a","S","t","a","r","t">> THEN <<"9">>
        ELSE IF n = <<"_","o","A","S","e","g","m","e","n","t","R","o","D","a","t","a","S","t","a","r","t">> THEN <<"a">>
        ELSE IF n = <<"_","o","A","S","e","g","m","e","n","t","B","s","s","S","t","a","r","t">> THEN <<"b">>
        ELSE IF n = <<"_","o","B","S","e","g","m","e","n","t","T","e","x","t","S","t","a","r","t">> THEN <<"c">>
        ELSE IF n = <<"_","o","B","S","e","g","m","e","n","t","D","a","t","a","S","t","a","r","t">> THEN <<"d">>
        ELSE IF n = <<"_","o","B","S","e","g","m","e","n","t","R","o","D","a","t","a","S","t","a","r","t">> THEN <<"e">>
        ELSE <<"1","0">>]

\* ... with oA's bss symbol missing (gdb.error)
SymbolsNoBss ==
    [n \in {<<"_","o","A","S","e","g","m","e","n","t","T","e","x","t","S","t","a","r","t">>,
            <<"_","o","A","S","e","g","m","e","n","t","D","a","t","a","S","t","a","r","t">>,
            <<"_","o","A","S","e","g","m","e","n","t","R","o","D","a","t","a","S","t","a","r","t">>,
            <<"_","o","B","S","e","g","m","e","n","t","T","e","x","t","S","t","a","r","t">>,
            <<"_","o","B","S","e","g","m","e","n","t","D","a","t","a","S","t","a","r","t">>,
            <<"_","o","B","S","e","g","m","e","n","t","R","o","D","a","t","a","S","t","a","r","t">>,
            <<"_","o","B","S","e","g","m","e","n","t","B","s","s","S","t","a","r","t">>} |->
        IF n = <<"_","o","A","S","e","g","m","e","n","t","T","e","x","t","S","t","a","r","t">> THEN <<"8">>
        ELSE IF n = <<"_","o","A","S","e","g","m","e","n","t","D","a","t","a","S","t","a","r","t">> THEN <<"9">>
        ELSE IF n = <<"_","o","A","S","e","g","m","e","n","t","R","o","D","a","t","a","S","t","a","r","t">> THEN <<"a">>
        ELSE IF n = <<"_","o","B","S","e","g","m","e","n","t","T","e","x","t","S","t","a","r","t">> THEN <<"c">>
        ELSE IF n = <<"_","o","B","S","e","g","m","e","n","t","D","a","t","a","S","t","a","r","t">> THEN <<"d">>
        ELSE IF n = <<"_","o","B","S","e","g","m","e","n","t","R","o","D","a","t","a","S","t","a","r","t">> THEN <<"e">>
        ELSE <<"1","0">>]

\* ... with an unexpected printf answer for oA's data symbol (ValueError) and
\* oB's data, rodata and bss linked below its text
SymbolsOdd ==
    [n \in {<<"_","o","A","S","e","g","m","e","n","t","T","e","x","t","S","t","a","r","t">>,
            <<"_","o","A","S","e","g","m","e","n","t","D","a","t","a","S","t","a","r","t">>,
            <<"_","o","A","S","e","g","m","e","n","t","R","o","D","a","t","a","S","t","a","r","t">>,
            <<"_","o","A","S","e","g","m","e","n","t","B","s","s","S","t","a","r","t">>,
            <<"_","o","B","S","e","g","m","e","n","t","T","e","x","t","S","t","a","r","t">>,
            <<"_","o","B","S","e","g","m","e","n","t","D","a","t","a","S","t","a","r","t">>,
            <<"_","o","B","S","e","g","m","e","n","t","R","o","D","a","t","a","S","t","a","r","t">>,
            <<"_","o","B","S","e","g","m","e","n","t","B","s","s","S","t","a","r","t">>} |->
        IF n = <<"_","o","A","S","e","g","m","e","n","t","T","e","x","t","S","t","a","r","t">> THEN <<"8">>
        ELSE IF n = <<"_","o","A","S","e","g","m","e","n","t","D","a","t","a","S","t","a","r","t">> THEN <<>>
        ELSE IF n = <<"_","o","A","S","e","g","m","e","n","t","R","o","D","a","t","a","S","t","a","r","t">> THEN <<"a">>
        ELSE IF n = <<"_","o","A","S","e","g","m","e","n","t","B","s","s","S","t","a","r","t">> THEN <<"b">>
        ELSE IF n = <<"_","o","B","S","e","g","m","e","n","t","T","e","x","t","S","t","a","r","t">> THEN <<"c">>
        ELSE IF n = <<"_","o","B","S","e","g","m","e","n","t","D","a","t","a","S","t","a","r","t">> THEN <<"6">>
        ELSE IF n = <<"_","o","B","S","e","g","m","e","n","t","R","o","D","a","t","a","S","t","a","r","t">> THEN <<"a">>
        ELSE <<"b">>]

\* Value.format_string() with a symbol at the address, without one, and with
\* the address inside a symbol
FormatSym(name) == [a \in Vrams |-> FormatHex(a) \o <<" ", "<">> \o name \o <<">">>]
FormatNoSym == [a \in Vrams |-> FormatHex(a)]
FormatInside == [a \in Vrams |-> FormatHex(a) \o <<" ", "<", "f", "+", "4", ">">>]

InfoSymbol_oA == Reply(<<"f"," ","i","n"," ","s","e","c","t","i","o","n"," ",".",".","o","A"," ","o","f"," ","/","b","/","r",".","e","l","f","\n">>)
InfoSymbol_oB == Reply(<<"g"," ","i","n"," ","s","e","c","t","i","o","n"," ",".",".","o","B","\n">>)
InfoSymbolNone == Reply(<<"N","o"," ","s","y","m","b","o","l"," ","m","a","t","c","h","e","s"," ","0","x","8",".","\n">>)
\* `info file` as gdb prints it (lines start with a tab) and without the tabs
InfoFileTabs == Reply(<<"\t","0","x","8"," ","-"," ","0","x","c"," ","i","s"," ",".",".","o","A","\n","\t","0","x","c"," ","-"," ","0","x","1","0"," ","i","s"," ",".",".","o","B","\n">>)
InfoFilePlain == Reply(<<"0","x","8"," ","-"," ","0","x","c"," ","i","s"," ",".",".","o","A","\n","0","x","c"," ","-"," ","0","x","1","0"," ","i","s"," ",".",".","o","B","\n">>)

\* The host's answers when every lookup succeeds
GoodHost ==
    [info_symbol |-> InfoSymbol_oA,
     info_file |-> InfoFileTabs,
     symbols |-> Symbols,
     format_string |-> FormatSym(<<"f">>),
     symtab |-> [n \in {<<"f">>, <<"g">>} |->
                    IF n = <<"f">> THEN <<"s","/","o","A",".","c">> ELSE <<"s","/","o","B",".","c">>],
     elf |-> <<"/","b","/","r",".","e","l","f">>,
     add_ok |-> TRUE]

\* The host's answers tried, by name: GoodHost and its variations
Host ==
    [good |-> GoodHost,
     add_fails |-> [GoodHost EXCEPT !.add_ok = FALSE],
     oB |-> [GoodHost EXCEPT !.info_symbol = InfoSymbol_oB,
                             !.format_string = FormatSym(<<"g">>)],
     oB_low |-> [GoodHost EXCEPT !.info_symbol = InfoSymbol_oB, !.symbols = SymbolsOdd],
     info_symbol_error |-> [GoodHost EXCEPT !.info_symbol = GdbError],
     no_section |-> [GoodHost EXCEPT !.info_symbol = InfoSymbolNone],
     info_file |-> [GoodHost EXCEPT !.info_symbol = InfoSymbolNone,
                                    !.info_file = InfoFilePlain],
     info_file_error |-> [GoodHost EXCEPT !.info_symbol = InfoSymbolNone,
                                          !.info_file = GdbError],
     no_bss |-> [GoodHost EXCEPT !.symbols = SymbolsNoBss],
     odd_printf |-> [GoodHost EXCEPT !.symbols = SymbolsOdd],
     no_symbol |-> [GoodHost EXCEPT !.format_string = FormatNoSym],
     inside_symbol |-> [GoodHost EXCEPT !.format_string = FormatInside],
     no_symtab |-> [GoodHost EXCEPT !.format_string = FormatSym(<<"h">>)]]

Hosts == DOMAIN Host

\* The host's answers to the two `info symbol` queries of AddOverlaySymbols
LegacyHost ==
    [good |-> [info_symbol_vramStart |->
                  Reply(<<"v","r","a","m","S","t","a","r","t"," ","i","n"," ","s","e","c","t","i","o","n"," ",".",".","o","A","\n">>),
               info_sym |-> InfoSymbol_oA],
     no_vramStart |-> [info_symbol_vramStart |-> GdbError, info_sym |-> InfoSymbol_oA]]

LegacyHosts == DOMAIN LegacyHost

\* frame.read_var(name): the variable's value, or found = FALSE when the
\* function was not compiled with debug information (ValueError)
FrameVars == [found : {TRUE}, value : 0..MaxAddr] \cup {[found |-> FALSE, value |-> 0]}

\* --------------------------------------------- the loaded-overlay registry

\* loaded_z64overlay_objects[alloc_address] = path
RegistryPut(reg, alloc_address, path) ==
    [a \in (DOMAIN reg) \cup {alloc_address} |->
        IF a = alloc_address THEN path ELSE reg[a]]

\* loaded_z64overlay_objects.clear() in place of the del of line 193
RegistryDel_all(reg, alloc_address) ==
    [a \in {} |-> reg[a]]

\* del loaded_z64overlay_objects[alloc_address]
RegistryDel(reg, alloc_address) ==
    [a \in (DOMAIN reg) \ {alloc_address} |-> reg[a]]

\* The add-symbol-file request of load_z64overlay_object
AddSymbolFile(path, ovl_offsets) ==
    [cmd |-> "add-symbol-file", readnow |-> TRUE, file |-> path,
     o |-> "0xFF000000",
     s |-> [i \in 1..Len(SectionType) |->
               [name |-> SectionType[i].section_name,
                addr |-> FormatHex(ovl_offsets[i])]]]

\* The remove-symbol-file request of unload_z64overlay_object
RemoveSymbolFile(path) ==
    [cmd |-> "remove-symbol-file", readnow |-> FALSE, file |-> path,
     o |-> "", s |-> <<>>]

\* What a call of load_z64overlay_object / unload_z64overlay_object leaves:
\* the exception raised ("" when it returned), the registry, the host's
\* symbol files, the add/remove requests issued and the lines printed; links keeps the
\* host's printf answers for the four section symbols once all are resolved.
Effect(raised, reg, files, calls, printed) ==
    [raised |-> raised, reg |-> reg, files |-> files, calls |-> calls,
     printed |-> printed, links |-> <<>>]

Min(S) == CHOOSE x \in S : \A y \in S : x <= y

\* Lines 147-185 of load_z64overlay_object(alloc_address, vram_address): what
\* they compute from the host's answers h, which are info_symbol, info_file
\* (replies), symbols (printf answers by name), format_string (text by
\* address), symtab (source file by symbol name; a name it lacks makes
\* gdb.lookup_symbol return None), elf (progspace filename) and add_ok
\* (whether add-symbol-file succeeds). registered tells whether line 173 was
\* reached, with the path it records and the request of line 176.
Resolution(raised, registered, path, calls, printed, links) ==
    [raised |-> raised, registered |-> registered, path |-> path,
     calls |-> calls, printed |-> printed, links |-> links]

\* ovl_offset with the subtraction the wrong way round
ovl_offset_reversed(alloc_address, section_address, vram_address) ==
    alloc_address + (vram_address - section_address)

\* ovl_offsets[sec], for the section linked at section_address
ovl_offset(alloc_address, section_address, vram_address) ==
    alloc_address + (section_address - vram_address)

\* Lines 173-187: the entry is recorded, then add-symbol-file is requested
ResolveAdd(h, target_filename_o_p, ovl_offsets, links, p1) ==
    IF h.add_ok
    THEN Resolution("", TRUE, target_filename_o_p,
                    <<AddSymbolFile(target_filename_o_p, ovl_offsets)>>,
                    p1 \o <<"Reading ...", "Complete.">>, links)
    ELSE Resolution("gdb.error", TRUE, target_filename_o_p,
                    <<AddSymbolFile(target_filename_o_p, ovl_offsets)>>,
                    p1 \o <<"Reading ...">>, links)

\* Lines 165-171: the object path of the symbol sym at vram_address
ResolveObject(h, ovl_offsets, sym, links, p1) ==
    IF sym.raised # "" THEN Resolution(sym.raised, FALSE, <<>>, <<>>, p1, links)
    ELSE IF sym.val \notin DOMAIN h.symtab
    THEN Resolution("AttributeError", FALSE, <<>>, <<>>, p1, links)
    ELSE ResolveAdd(h,
            PathWithSuffix(PathJoin(PathParent(h.elf), h.symtab[sym.val]), S_dot_o),
            ovl_offsets, links, p1)

\* The first failing lookup of ovl_addresses, 0 when all succeeded
FirstFailed(ovl_addresses) ==
    IF \A i \in 1..Len(SectionType) : ovl_addresses[i].raised = "" THEN 0
    ELSE Min({i \in 1..Len(SectionType) : ovl_addresses[i].raised # ""})

\* Lines 155-162: ovl_addresses and ovl_offsets
ResolveOffsets(alloc_address, vram_address, h, ovl_addresses, links, p1) ==
    IF FirstFailed(ovl_addresses) # 0
    THEN Resolution(ovl_addresses[FirstFailed(ovl_addresses)].raised,
                    FALSE, <<>>, <<>>, p1, <<>>)
    ELSE ResolveObject(h,
            [i \in 1..Len(SectionType) |->
                ovl_offset(alloc_address, ovl_addresses[i].val, vram_address)],
            get_sym_name_from_addr(vram_address, h.format_string[vram_address]),
            links, p1)

\* The host's printf answer for a section symbol, "" when it has none
LinkText(ovl_sec_name, linker_script_name, symbols) ==
    IF <<"_">> \o ovl_sec_name \o S_Segment \o linker_script_name \o S_Start
           \in DOMAIN symbols
    THEN symbols[<<"_">> \o ovl_sec_name \o S_Segment \o linker_script_name \o S_Start]
    ELSE <<>>

\* Lines 153-160: the section name without its ".." prefix, and the four
\* section addresses
ResolveAddresses(alloc_address, vram_address, h, ovl_sec_name, p1) ==
    ResolveOffsets(alloc_address, vram_address, h,
        [i \in 1..Len(SectionType) |->
            get_section_address(ovl_sec_name, SectionType[i].linker_script_name,
                                h.symbols)],
        [i \in 1..Len(SectionType) |->
            LinkText(ovl_sec_name, SectionType[i].linker_script_name, h.symbols)],
        p1)

ResolveName(alloc_address, vram_address, h, sec, p1) ==
    IF sec.raised # "" THEN Resolution(sec.raised, FALSE, <<>>, <<>>, p1, <<>>)
    ELSE ResolveAddresses(alloc_address, vram_address, h,
                          StrRemovePrefix(sec.val, S_dotdot), p1)

\* Lines 147-151 with `except Exception` in place of `except ValueError`
ResolveSection_any(alloc_address, vram_address, h, first) ==
    IF first.raised # ""
    THEN ResolveName(alloc_address, vram_address, h,
                     get_section_by_addr(vram_address, h.info_file),
                     <<"get_sym_section() failed, trying get_section_by_addr()">>)
    ELSE ResolveName(alloc_address, vram_address, h, first, <<>>)

\* Lines 147-151: get_sym_section, and get_section_by_addr when it raised
\* ValueError
ResolveSection(alloc_address, vram_address, h, first) ==
    IF first.raised = "ValueError"
    THEN ResolveName(alloc_address, vram_address, h,
                     get_section_by_addr(vram_address, h.info_file),
                     <<"get_sym_section() failed, trying get_section_by_addr()">>)
    ELSE ResolveName(alloc_address, vram_address, h, first, <<>>)

Resolve(alloc_address, vram_address, h) ==
    ResolveSection(alloc_address, vram_address, h, get_sym_section(h.info_symbol))

\* Resolve, tabulated once for the inputs tried
Resolved ==
    [h \in Hosts |-> [alloc_address \in 0..MaxAddr |-> [vram_address \in Vrams |->
        Resolve(alloc_address, vram_address, Host[h])] @@ <<>>] @@ <<>>] @@ <<>>

\* load_z64overlay_object recording the entry before the lookups are done
load_z64overlay_object_apply_early(reg, files, alloc_address, res) ==
    [raised |-> res.raised,
     reg |-> RegistryPut(reg, alloc_address, res.path),
     files |-> IF res.registered /\ res.raised = ""
               THEN files (+) SetToBag({res.path}) ELSE files,
     calls |-> res.calls,
     printed |-> res.printed,
     links |-> res.links]

\* Lines 147-187 of load_z64overlay_object applied to the registry and the
\* host's symbol files, res being what they compute
load_z64overlay_object_apply(reg, files, alloc_address, res) ==
    [raised |-> res.raised,
     reg |-> IF res.registered THEN RegistryPut(reg, alloc_address, res.path) ELSE reg,
     files |-> IF res.registered /\ res.raised = ""
               THEN files (+) SetToBag({res.path}) ELSE files,
     calls |-> res.calls,
     printed |-> res.printed,
     links |-> res.links]

\* load_z64overlay_object without the test of lines 144-145
load_z64overlay_object_unchecked(reg, files, alloc_address, vram_address, h) ==
    load_z64overlay_object_apply(reg, files, alloc_address,
                                 Resolved[h][alloc_address][vram_address])

\* load_z64overlay_object(alloc_address, vram_address), with the host's
\* answers named h
load_z64overlay_object(reg, files, alloc_address, vram_address, h) ==
    IF alloc_address \in DOMAIN reg
    THEN Effect("Exception: Already loaded", reg, files, <<>>, <<>>)
    ELSE load_z64overlay_object_apply(reg, files, alloc_address,
                                      Resolved[h][alloc_address][vram_address])

\* unload_z64overlay_object deleting the entry without the membership test
\* of line 191: a KeyError for an address that is not registered
unload_z64overlay_object_KeyError(reg, files, alloc_address) ==
    IF alloc_address \in DOMAIN reg
    THEN Effect(IF BagIn(reg[alloc_address], files) THEN "" ELSE "gdb.error",
                RegistryDel(reg, alloc_address),
                IF BagIn(reg[alloc_address], files)
                THEN files (-) SetToBag({reg[alloc_address]}) ELSE files,
                <<RemoveSymbolFile(reg[alloc_address])>>, <<"Unloading overlay">>)
    ELSE Effect("KeyError", reg, files, <<>>, <<>>)

\* unload_z64overlay_object without the del of line 193
unload_z64overlay_object_keeping(reg, files, alloc_address) ==
    IF alloc_address \in DOMAIN reg
    THEN Effect(IF BagIn(reg[alloc_address], files) THEN "" ELSE "gdb.error",
                reg,
                IF BagIn(reg[alloc_address], files)
                THEN files (-) SetToBag({reg[alloc_address]}) ELSE files,
                <<RemoveSymbolFile(reg[alloc_address])>>, <<"Unloading overlay">>)
    ELSE Effect("", reg, files, <<>>, <<>>)

\* unload_z64overlay_object with the request of line 198 before the del of
\* line 193
unload_z64overlay_object_remove_first(reg, files, alloc_address) ==
    IF alloc_address \in DOMAIN reg
    THEN IF BagIn(reg[alloc_address], files)
         THEN Effect("", RegistryDel(reg, alloc_address),
                     files (-) SetToBag({reg[alloc_address]}),
                     <<RemoveSymbolFile(reg[alloc_address])>>, <<>>)
         ELSE Effect("gdb.error", reg, files,
                     <<RemoveSymbolFile(reg[alloc_address])>>, <<>>)
    ELSE Effect("", reg, files, <<>>, <<>>)

\* unload_z64overlay_object(alloc_address); the host's remove-symbol-file
\* fails (gdb.error) when it holds no symbol file of that name.
unload_z64overlay_object(reg, files, alloc_address) ==
    IF alloc_address \in DOMAIN reg
    THEN LET obj_p == reg[alloc_address]
             reg2 == RegistryDel(reg, alloc_address)
         IN  IF BagIn(obj_p, files)
             THEN Effect("", reg2, files (-) SetToBag({obj_p}),
                         <<RemoveSymbolFile(obj_p)>>, <<"Unloading overlay">>)
             ELSE Effect("gdb.error", reg2, files,
                         <<RemoveSymbolFile(obj_p)>>, <<"Unloading overlay">>)
    ELSE Effect("", reg, files, <<>>, <<>>)

\* load_z64overlay_object_from_table(overlay_table, index); entry is
\* overlay_table[index]
load_z64overlay_object_from_table(reg, files, entry, h) ==
    IF entry.loadedRamAddr = 0
    THEN Effect("", reg, files, <<>>,
                <<"ERROR: Requested overlay is not currently loaded">>)
    ELSE load_z64overlay_object(reg, files, entry.loadedRamAddr, entry.vramStart, h)

\* ----------------------------------------------------- command dispatch

\* re.findall(r"^([^_]+)", arg): the characters before the first "_", when
\* there is at least one
ReFindallPrefix(arg) ==
    LET i == StrFind(arg, <<"_">>)
        p == IF i = 0 THEN arg ELSE SubSeq(arg, 1, i - 1)
    IN  IF p = <<>> THEN <<>> ELSE <<p>>

\* TableOfType with the tables of GAMESTATE and ACTOR exchanged
TableOfType_exchanged(ovl_type) ==
    IF ovl_type = S_GAMESTATE THEN "gActorOverlayTable"
    ELSE IF ovl_type = S_ACTOR THEN "gGameStateOverlayTable"
    ELSE IF ovl_type = S_EFFECT THEN "gEffectSsOverlayTable"
    ELSE ""

\* if ovl_type == "GAMESTATE": ... elif "ACTOR" ... elif "EFFECT" ...; "" for
\* the else branch
TableOfType(ovl_type) ==
    IF ovl_type = S_GAMESTATE THEN "gGameStateOverlayTable"
    ELSE IF ovl_type = S_ACTOR THEN "gActorOverlayTable"
    ELSE IF ovl_type = S_EFFECT THEN "gEffectSsOverlayTable"
    ELSE ""

\* What a command's dispatch decides: kind is "auto_on", "auto_off", "load"
\* (table[index] is to be loaded), "unsupported" (unsupported enum type),
\* "notfound" (enum value not in the elf) or "IndexError" (matches[0] of an
\* empty list); lookup tells whether gdb.lookup_symbol(arg) was called.
Sel(kind, table, index, lookup) ==
    [kind |-> kind, table |-> table, index |-> index, lookup |-> lookup]

\* Lines 237-259 of LoadZ64OvlCmd.invoke: the else branch, for an enum name
LoadZ64OvlCmd_select_enum(arg, enums) ==
    LET matches == ReFindallPrefix(arg) IN
    IF matches = <<>> THEN Sel("IndexError", "", -1, FALSE)
    ELSE LET table == TableOfType(matches[1]) IN
         IF table = "" THEN Sel("unsupported", "", -1, FALSE)
         ELSE IF arg \notin DOMAIN enums THEN Sel("notfound", table, -1, TRUE)
         ELSE Sel("load", table, enums[arg], TRUE)

\* LoadZ64OvlCmd_select without the ACTOR_PLAYER case of lines 233-236
LoadZ64OvlCmd_select_no_player(arg, enums) ==
    IF arg = S_AUTO_ON THEN Sel("auto_on", "", -1, FALSE)
    ELSE IF arg = S_AUTO_OFF THEN Sel("auto_off", "", -1, FALSE)
    ELSE IF arg \in {S_PAUSE, S_KALEIDO, S_KALEIDO_SCOPE}
    THEN Sel("load", "gKaleidoMgrOverlayTable", 0, FALSE)
    ELSE LoadZ64OvlCmd_select_enum(arg, enums)

\* LoadZ64OvlCmd.invoke, up to the call of load_z64overlay_object_from_table;
\* arg is already upper-cased, enums are the enum values of the elf by name.
LoadZ64OvlCmd_select(arg, enums) ==
    IF arg = S_AUTO_ON THEN Sel("auto_on", "", -1, FALSE)
    ELSE IF arg = S_AUTO_OFF THEN Sel("auto_off", "", -1, FALSE)
    ELSE IF arg \in {S_PAUSE, S_KALEIDO, S_KALEIDO_SCOPE}
    THEN Sel("load", "gKaleidoMgrOverlayTable", 0, FALSE)
    ELSE IF arg = S_ACTOR_PLAYER
    THEN Sel("load", "gKaleidoMgrOverlayTable", 1, FALSE)
    ELSE LoadZ64OvlCmd_select_enum(arg, enums)

\* LoadOvlCmd.invoke (gdb_load_ovl.py), up to the call of AddOverlaySymbols
LoadOvlCmd_select(arg, enums) ==
    IF arg \in {S_PAUSE, S_KALEIDO, S_KALEIDO_SCOPE}
    THEN Sel("load", "gKaleidoMgrOverlayTable", 0, FALSE)
    ELSE IF arg = S_ACTOR_PLAYER
    THEN Sel("load", "gKaleidoMgrOverlayTable", 1, FALSE)
    ELSE IF arg \notin DOMAIN enums THEN Sel("notfound", "", -1, TRUE)
    ELSE
    LET matches == ReFindallPrefix(arg) IN
    IF matches = <<>> THEN Sel("IndexError", "", -1, TRUE)
    ELSE LET table == TableOfType(matches[1]) IN
         IF table = "" THEN Sel("unsupported", "", -1, TRUE)
         ELSE Sel("load", table, enums[arg], TRUE)

\* The dispatch of `z64ovl <arg>` against the elf named e, tabulated once
Z64Selected == [arg \in Args |-> [e \in ElfEnums |->
                    LoadZ64OvlCmd_select(StrUpper(arg), Enums[e])] @@ <<>>] @@ <<>>

\* AUTO OFF also forgetting the overlays loaded so far
LoadZ64OvlCmd_auto_forgetting(reg, files, on) ==
    Effect("", IF on THEN reg ELSE [a \in {} |-> <<>>], files, <<>>,
           IF on THEN <<"z64 overlays will be automatically loaded">>
           ELSE <<"z64 overlays will NOT be automatically loaded">>)

\* Lines 220-227 of LoadZ64OvlCmd.invoke, AUTO ON (on) and AUTO OFF: what
\* they leave besides bp_load.enabled = on
LoadZ64OvlCmd_auto(reg, files, on) ==
    Effect("", reg, files, <<>>,
           IF on THEN <<"z64 overlays will be automatically loaded">>
           ELSE <<"z64 overlays will NOT be automatically loaded">>)

\* LoadZ64OvlCmd.invoke: the selection, the new bp_load.enabled and the effect
LoadZ64OvlCmd_invoke(reg, files, enabled, arg, e, entry, h) ==
    LET sel == Z64Selected[arg][e] IN
    [sel |-> sel,
     enabled |-> IF sel.kind = "auto_on" THEN TRUE
                 ELSE IF sel.kind = "auto_off" THEN FALSE
                 ELSE enabled,
     eff |->
        IF sel.kind \in {"auto_on", "auto_off"}
        THEN LoadZ64OvlCmd_auto(reg, files, sel.kind = "auto_on")
        ELSE IF sel.kind = "unsupported"
        THEN Effect("", reg, files, <<>>, <<"ERROR: Type of enum provided is not supported">>)
        ELSE IF sel.kind = "notfound"
        THEN Effect("", reg, files, <<>>,
                    <<"ERROR: Provided enum value could not be found in the elf">>)
        ELSE IF sel.kind = "IndexError"
        THEN Effect("IndexError", reg, files, <<>>, <<>>)
        ELSE load_z64overlay_object_from_table(reg, files, entry, h)]

\* -------------------------------------------------------- gdb_load_ovl.py

\* AddOverlaySymbols without the test of lines 17-19
AddOverlaySymbols_unchecked(reg, files, alloc_address, h) ==
    IF LegacyHost[h].info_symbol_vramStart.err \/ LegacyHost[h].info_sym.err
    THEN Effect("gdb.error", reg, files, <<>>, <<"Loading symbols for actor at ">>)
    ELSE Effect("NameError", reg, files, <<>>, <<"Loading symbols for actor at ">>)

\* AddOverlaySymbols(alloc_address). The module defines neither
\* get_section_address (line 30) nor obj_address_map (line 44): once the two
\* `info symbol` queries have answered, the call ends in a NameError, before
\* any add-symbol-file request.
AddOverlaySymbols(reg, files, alloc_address, h) ==
    IF alloc_address = 0
    THEN Effect("", reg, files, <<>>,
                <<"ERROR: Requested overlay is not currently loaded">>)
    ELSE IF LegacyHost[h].info_symbol_vramStart.err \/ LegacyHost[h].info_sym.err
    THEN Effect("gdb.error", reg, files, <<>>, <<"Loading symbols for actor at ">>)
    ELSE Effect("NameError", reg, files, <<>>, <<"Loading symbols for actor at ">>)

\* The dispatch of `ovl <arg>` against the elf named e, tabulated once
OvlSelected == [arg \in Args |-> [e \in ElfEnums |->
                   LoadOvlCmd_select(StrUpper(arg), Enums[e])] @@ <<>>] @@ <<>>

\* LoadOvlCmd.invoke
LoadOvlCmd_invoke(reg, files, arg, e, entry, h) ==
    LET sel == OvlSelected[arg][e] IN
    [sel |-> sel,
     eff |->
        IF sel.kind = "notfound"
        THEN Effect("", reg, files, <<>>,
                    <<"ERROR: Provided enum value could not be found in the elf">>)
        ELSE IF sel.kind = "IndexError"
        THEN Effect("IndexError", reg, files, <<>>, <<>>)
        ELSE IF sel.kind = "unsupported"
        THEN Effect("Exception: Type of enum provided is not supported",
                    reg, files, <<>>, <<>>)
        ELSE AddOverlaySymbols(reg, files, entry.loadedRamAddr, h)]

\* -------------------------------------------------------------- the state

VARIABLES
    loaded_z64overlay_objects,  \* the registry: alloc_address -> object path
    bp_load_enabled,            \* bp_load.enabled (Overlay_Load)
    bp_free_enabled,            \* bp_free.enabled (ZeldaArena_FreeDebug)
    bp_system_free_enabled,     \* bp_system_free.enabled (SystemArena_FreeDebug)
    bp_kaleido_enabled,         \* bp_kaleido.enabled (KaleidoManager_ClearOvl)
    symbol_files,               \* the host's added symbol files, a bag of paths
    last                        \* the last command or event and its outcome

vars == <<loaded_z64overlay_objects, bp_load_enabled, bp_free_enabled,
          bp_system_free_enabled, bp_kaleido_enabled, symbol_files, last>>

\* The record kept of a command or breakpoint event: op names it; handled
\* tells whether the callback ran (a disabled breakpoint runs nothing); arg
\* and elf are the command's argument and the elf its enum lookup ran
\* against; sel is the command's dispatch; called names the function the
\* callback went on to call ("load_z64overlay_object",
\* "unload_z64overlay_object", "AddOverlaySymbols" past its zero check, or
\* ""), with alloc and vram its addresses; raised is the exception that left
\* the callback ("" when it returned) and ret the value returned ("None" by
\* invoke, "False" by stop).
Last(op, handled, arg, elf, sel, called, alloc, vram, eff, ret) ==
    [op |-> op, handled |-> handled, arg |-> arg, elf |-> elf, kind |-> sel.kind,
     table |-> sel.table, index |-> sel.index, lookup |-> sel.lookup,
     called |-> called, alloc |-> alloc, vram |-> vram,
     raised |-> eff.raised, ret |-> IF eff.raised = "" THEN ret ELSE "",
     calls |-> eff.calls, printed |-> eff.printed, links |-> eff.links]

NoSel == Sel("", "", -1, FALSE)
EmptyRegistry == [a \in {} |-> <<>>]

\* The module's top level: the registry is empty (line 131), bp_load is
\* enabled as AUTOLOAD_ENABLED_BY_DEFAULT says (line 298), the three free
\* breakpoints are created enabled (lines 300-307).
Init ==
    /\ loaded_z64overlay_objects = EmptyRegistry
    /\ bp_load_enabled = AUTOLOAD_ENABLED_BY_DEFAULT
    /\ bp_free_enabled = TRUE
    /\ bp_system_free_enabled = TRUE
    /\ bp_kaleido_enabled = TRUE
    /\ symbol_files = EmptyBag
    /\ last = Last("init", FALSE, <<>>, "", NoSel, "", 0, 0,
                   Effect("", EmptyRegistry, EmptyBag, <<>>, <<>>), "")

FreeBreakpointsUnchanged ==
    UNCHANGED <<bp_free_enabled, bp_system_free_enabled, bp_kaleido_enabled>>

\* One `z64ovl <arg>` command with these inputs
Z64OvlStep(arg, enums, entry, h) ==
    \E r \in {LoadZ64OvlCmd_invoke(loaded_z64overlay_objects, symbol_files,
                                    bp_load_enabled, arg, enums, entry, h)} :
        /\ loaded_z64overlay_objects' = r.eff.reg
        /\ symbol_files' = r.eff.files
        /\ bp_load_enabled' = r.enabled
        /\ FreeBreakpointsUnchanged
        /\ last' = Last("z64ovl", TRUE, arg, enums, r.sel,
                        IF r.sel.kind = "load" /\ entry.loadedRamAddr # 0
                        THEN "load_z64overlay_object" ELSE "",
                        entry.loadedRamAddr, entry.vramStart, r.eff, "None")

\* The user types `z64ovl <arg>`. The table entry and the host's answers are
\* inputs only where the command reads them.
Z64OvlCmd(ArgSet, ElfSet, HostSet) ==
    \E arg \in ArgSet, enums \in ElfSet :
        IF Z64Selected[arg][enums].kind # "load"
        THEN Z64OvlStep(arg, enums, NoEntry, "good")
        ELSE \E entry \in Entries :
                IF entry.loadedRamAddr = 0
                THEN Z64OvlStep(arg, enums, entry, "good")
                ELSE \E h \in HostSet : Z64OvlStep(arg, enums, entry, h)

\* One `ovl <arg>` command with these inputs
OvlStep(arg, enums, entry, h) ==
    \E r \in {LoadOvlCmd_invoke(loaded_z64overlay_objects, symbol_files,
                                 arg, enums, entry, h)} :
        /\ loaded_z64overlay_objects' = r.eff.reg
        /\ symbol_files' = r.eff.files
        /\ UNCHANGED bp_load_enabled
        /\ FreeBreakpointsUnchanged
        /\ last' = Last("ovl", TRUE, arg, enums, r.sel,
                        IF r.sel.kind = "load" /\ entry.loadedRamAddr # 0
                        THEN "AddOverlaySymbols" ELSE "",
                        entry.loadedRamAddr, entry.vramStart, r.eff, "None")

\* The user types `ovl <arg>`
OvlCmd(ArgSet, ElfSet, HostSet) ==
    \E arg \in ArgSet, enums \in ElfSet :
        IF OvlSelected[arg][enums].kind # "load"
        THEN OvlStep(arg, enums, NoEntry, "good")
        ELSE \E entry \in Entries :
                IF entry.loadedRamAddr = 0
                THEN OvlStep(arg, enums, entry, "good")
                ELSE \E h \in HostSet : OvlStep(arg, enums, entry, h)

\* A breakpoint that is hit while disabled: the host runs no callback
NotHandled(op, alloc, vram) ==
    /\ UNCHANGED <<loaded_z64overlay_objects, symbol_files, bp_load_enabled>>
    /\ FreeBreakpointsUnchanged
    /\ last' = Last(op, FALSE, <<>>, "", NoSel, "", alloc, vram,
                    Effect("", loaded_z64overlay_objects, symbol_files, <<>>, <<>>), "")

\* BreakpointOverlayLoad.stop: alloc_var and vram_var are what
\* frame.read_var("allocatedRamAddr") and frame.read_var("vramStart") give
\* (lines 269-270, ValueError for a variable the frame lacks); the address
\* read is passed on as it is, 0 included (line 272)
BreakpointOverlayLoad_stop(reg, files, alloc_var, vram_var, h) ==
    IF ~alloc_var.found \/ ~vram_var.found
    THEN Effect("ValueError", reg, files, <<>>, <<>>)
    ELSE load_z64overlay_object(reg, files, alloc_var.value, vram_var.value, h)

\* The game calls Overlay_Load(..., vramStart, ..., allocatedRamAddr).
\* vramStart is an input only when allocatedRamAddr was read (line 269 comes
\* first), the host's answers only where the callback reaches the lookups.
OverlayLoadEvent(HostSet) ==
    \E alloc_var \in FrameVars :
      \E vram_var \in IF alloc_var.found
                      THEN [found : {TRUE}, value : Vrams] \cup {[found |-> FALSE, value |-> 0]}
                      ELSE {[found |-> FALSE, value |-> 0]} :
        IF ~bp_load_enabled
        THEN NotHandled("Overlay_Load", alloc_var.value, vram_var.value)
        ELSE \E h \in IF alloc_var.found /\ vram_var.found THEN HostSet ELSE {"good"} :
            \E eff \in {BreakpointOverlayLoad_stop(loaded_z64overlay_objects,
                                                    symbol_files, alloc_var, vram_var, h)} :
                /\ loaded_z64overlay_objects' = eff.reg
                /\ symbol_files' = eff.files
                /\ UNCHANGED bp_load_enabled
                /\ FreeBreakpointsUnchanged
                /\ last' = Last("Overlay_Load", TRUE, <<>>, "", NoSel,
                                IF alloc_var.found /\ vram_var.found
                                THEN "load_z64overlay_object" ELSE "",
                                alloc_var.value, vram_var.value, eff, "False")

\* BreakpointKaleidoFree.stop without the call of line 292
BreakpointKaleidoFree_stop_idle(reg, files, var) ==
    IF ~var.found THEN Effect("ValueError", reg, files, <<>>, <<>>)
    ELSE Effect("", reg, files, <<>>, <<>>)

\* BreakpointFree.stop and BreakpointKaleidoFree.stop: var is what
\* frame.read_var("ptr") (or "ovl", for its loadedRamAddr) gives
BreakpointFree_stop(reg, files, var) ==
    IF ~var.found THEN Effect("ValueError", reg, files, <<>>, <<>>)
    ELSE unload_z64overlay_object(reg, files, var.value)

BreakpointKaleidoFree_stop(reg, files, var) ==
    IF ~var.found THEN Effect("ValueError", reg, files, <<>>, <<>>)
    ELSE unload_z64overlay_object(reg, files, var.value)

FreeStep(op, eff, var) ==
    /\ loaded_z64overlay_objects' = eff.reg
    /\ symbol_files' = eff.files
    /\ UNCHANGED bp_load_enabled
    /\ FreeBreakpointsUnchanged
    /\ last' = Last(op, TRUE, <<>>, "", NoSel,
                    IF var.found THEN "unload_z64overlay_object" ELSE "",
                    var.value, 0, eff, "False")

\* The game calls ZeldaArena_FreeDebug(ptr, ...)
ZeldaArenaFreeEvent ==
    \E var \in FrameVars :
        IF ~bp_free_enabled THEN NotHandled("ZeldaArena_FreeDebug", var.value, 0)
        ELSE \E eff \in {BreakpointFree_stop(loaded_z64overlay_objects,
                                             symbol_files, var)} :
                FreeStep("ZeldaArena_FreeDebug", eff, var)

\* The game calls SystemArena_FreeDebug(ptr, ...)
SystemArenaFreeEvent ==
    \E var \in FrameVars :
        IF ~bp_system_free_enabled
        THEN NotHandled("SystemArena_FreeDebug", var.value, 0)
        ELSE \E eff \in {BreakpointFree_stop(loaded_z64overlay_objects,
                                             symbol_files, var)} :
                FreeStep("SystemArena_FreeDebug", eff, var)

\* The game calls KaleidoManager_ClearOvl(ovl)
KaleidoClearOvlEvent ==
    \E var \in FrameVars :
        IF ~bp_kaleido_enabled
        THEN NotHandled("KaleidoManager_ClearOvl", var.value, 0)
        ELSE \E eff \in {BreakpointKaleidoFree_stop(loaded_z64overlay_objects,
                                                    symbol_files, var)} :
                FreeStep("KaleidoManager_ClearOvl", eff, var)

\* Spec: a few arguments against the elf "game", every answer of the host
Next ==
    \/ Z64OvlCmd(CoreArgs, {"game"}, Hosts)
    \/ OvlCmd(CoreArgs, {"game"}, LegacyHosts)
    \/ OverlayLoadEvent(Hosts)
    \/ ZeldaArenaFreeEvent
    \/ SystemArenaFreeEvent
    \/ KaleidoClearOvlEvent

Spec == Init /\ [][Next]_vars

\* SpecCmd: every argument against both elfs, the host's lookups all succeeding
NextCmd ==
    \/ Z64OvlCmd(Args, ElfEnums, {"good"})
    \/ OvlCmd(Args, ElfEnums, {"good"})
    \/ OverlayLoadEvent({"good"})
    \/ ZeldaArenaFreeEvent
    \/ SystemArenaFreeEvent
    \/ KaleidoClearOvlEvent

SpecCmd == Init /\ [][NextCmd]_vars


\* SpecOk: manual loads, load events, free events and AUTO toggles with hosts
\* whose lookups and requests all succeed (two overlays, of different object
\* files)
NextOk ==
    \/ Z64OvlCmd(CoreArgs, {"game"}, {"good", "oB"})
    \/ OverlayLoadEvent({"good", "oB"})
    \/ ZeldaArenaFreeEvent
    \/ SystemArenaFreeEvent
    \/ KaleidoClearOvlEvent

SpecOk == Init /\ [][NextOk]_vars


\* ------------------------------------------------- the two text parsers

\* Replies to `info symbol`: a symbol, "in section " not at all, once or
\* twice, the section with or without its "..", and what follows it
InfoSymbolHeads ==
    {<<"P","l","a","y","_","I","n","i","t"," ">>,
     <<" ">>,
     <<"f"," ","i","n"," ","x"," ">>}
InfoSymbolTails ==
    {<<>>,
     <<" ","o","f"," ","/","p","a","t","h","/","t","o","/","r","o","m",".","e","l","f">>,
     <<"\n">>,
     <<" ","o","f"," ","/","b","/","r",".","e","l","f","\n">>,
     <<" ","o","f"," ","/","a"," ","o","f"," ","/","b",".","e","l","f","\n">>}
InfoSymbolTexts ==
    {h \o m \o s \o t :
        h \in InfoSymbolHeads,
        m \in {<<"i","n"," ","s","e","c","t","i","o","n"," ">>,
              <<"i","n"," ">>,
              <<"i","n"," ","s","e","c","t","i","o","n"," ","g"," ","i","n"," ","s","e","c","t","i","o","n"," ">>},
        s \in {<<".",".","c","o","d","e">>,
              <<".",".","o","A">>,
              <<".",".","o","f">>,
              <<".",".",".","b">>,
              <<"c","o","d","e">>},
        t \in InfoSymbolTails}

\* What lines 147 and 153 of load_z64overlay_object and line 135 of
\* get_section_address make of the section get_sym_section returned
SymSectionUse(info_sym, sec) ==
    [op |-> "get_sym_section", text |-> info_sym, raised |-> sec.raised,
     section |-> sec.val,
     name |-> IF sec.raised = "" THEN StrRemovePrefix(sec.val, S_dotdot) ELSE <<>>,
     link |-> IF sec.raised = ""
              THEN <<"_">> \o StrRemovePrefix(sec.val, S_dotdot) \o S_Segment
                       \o SectionType[1].linker_script_name \o S_Start
              ELSE <<>>]

\* get_sym_section, tabulated once for the replies tried
SymSections ==
    [info_sym \in InfoSymbolTexts |->
        SymSectionUse(info_sym, get_sym_section(Reply(info_sym)))]

\* get_sym_section is called for a symbol to which the host replies info_sym
GetSymSection ==
    /\ \E info_sym \in InfoSymbolTexts : last' = SymSections[info_sym]
    /\ UNCHANGED <<loaded_z64overlay_objects, bp_load_enabled, bp_free_enabled,
                   bp_system_free_enabled, bp_kaleido_enabled, symbol_files>>

\* Lines of `info file`: section ranges (one of them empty, one reversed,
\* one with 64-bit addresses, one in capitals, one with an empty name) and
\* lines that are no ranges
InfoFileLines ==
    {<<"0","x","0","0","0","0","1","0","6","0"," ","-"," ","0","x","0","0","0","0","2","0","0","0"," ","i","s"," ",".",".","b","o","o","t">>,
     <<"0","x","8"," ","-"," ","0","x","c"," ","i","s"," ",".",".","o","A">>,
     <<"0","x","c"," ","-"," ","0","x","c"," ","i","s"," ",".",".","e">>,
     <<"0","x","f","f","f","f","f","f","f","f","0","0","0","0","0","0","0","8"," ","-"," ","0","x","f","f","f","f","f","f","f","f","0","0","0","0","0","0","1","0"," ","i","s"," ",".",".","h","i">>,
     <<"0","X","8"," ","-"," ","0","X","C"," ","i","s"," ",".",".","U","P">>,
     <<"0","x","8"," ","-"," ","0","x","1","0"," ","i","s"," ">>,
     <<"0","x","c"," ","-"," ","0","x","8"," ","i","s"," ",".",".","r","e","v">>,
     <<"\t","0","x","8"," ","-"," ","0","x","1","0"," ","i","s"," ",".",".","t","a","b">>,
     <<"E","n","t","r","y"," ","p","o","i","n","t",":"," ","0","x","8">>,
     <<"0","x","8"," ","-"," ","0","x","1","0"," ","w","a","s"," ",".",".","x">>,
     <<"0","x","8"," ","-"," ","0","x","1","0"," ","i","s">>}

\* The text of one or two lines
InfoFileTexts ==
    {<<l>> : l \in InfoFileLines} \cup (InfoFileLines \X InfoFileLines)

RECURSIVE JoinLines(_)
JoinLines(lines) ==
    IF lines = <<>> THEN <<>>
    ELSE Head(lines) \o <<"\n">> \o JoinLines(Tail(lines))

SectionByAddr(lines, addr, res) ==
    [op |-> "get_section_by_addr", lines |-> lines, addr |-> addr,
     raised |-> res.raised, section |-> res.val]

\* get_section_by_addr, tabulated once for the inputs tried: the addresses
\* are 0x7, 0x8, 0xb, 0xc, 0x10, 0x1500 and 0x2000
SectionsByAddr ==
    [q \in InfoFileTexts \X {7, 8, 11, 12, 16, 5376, 8192} |->
        SectionByAddr(q[1], q[2], get_section_by_addr(q[2], Reply(JoinLines(q[1]))))]
    @@ <<>>

\* get_section_by_addr(addr) is called and the host replies to `info file`
\* with these lines
GetSectionByAddr ==
    /\ \E q \in DOMAIN SectionsByAddr : last' = SectionsByAddr[q]
    /\ UNCHANGED <<loaded_z64overlay_objects, bp_load_enabled, bp_free_enabled,
                   bp_system_free_enabled, bp_kaleido_enabled, symbol_files>>

NextParse ==
    \/ GetSymSection
    \/ GetSectionByAddr

SpecParse == Init /\ [][NextParse]_vars


\* -------------------------------------- the two section-name strategies

\* The host's replies to `info file`; those to `info symbol <vram_address>`
\* are InfoSymbol_oA, InfoSymbol_oB, InfoSymbolNone and a gdb.error
SectionFileReplies == {InfoFileTabs, InfoFilePlain, GdbError}

\* Lines 147-187 of load_z64overlay_object(alloc_address, vram_address) when
\* the host gives these two replies and every other lookup and request
\* succeeds, tabulated once; q is <<info_symbol, info_file, alloc_address,
\* vram_address>>
SectionLookups ==
    [q \in {InfoSymbol_oA, InfoSymbol_oB, InfoSymbolNone, GdbError}
              \X SectionFileReplies \X (1..MaxAddr) \X Vrams |->
        Resolve(q[3], q[4], [GoodHost EXCEPT !.info_symbol = q[1],
                                             !.info_file = q[2]])]
    @@ <<>>

\* What the call leaves in last
SectionLookup(q, eff) ==
    [op |-> "load_z64overlay_object", info_symbol |-> q[1], info_file |-> q[2],
     alloc |-> q[3], vram |-> q[4], raised |-> eff.raised,
     printed |-> eff.printed, calls |-> eff.calls, links |-> eff.links]

\* load_z64overlay_object(alloc_address, vram_address) is called, the host
\* giving these two replies: lines 144-145, then lines 147-187
LoadSectionName ==
    \E q \in DOMAIN SectionLookups :
        \E eff \in {IF q[3] \in DOMAIN loaded_z64overlay_objects
                    THEN Effect("Exception: Already loaded",
                                loaded_z64overlay_objects, symbol_files, <<>>, <<>>)
                    ELSE load_z64overlay_object_apply(loaded_z64overlay_objects,
                             symbol_files, q[3], SectionLookups[q])} :
            /\ loaded_z64overlay_objects' = eff.reg
            /\ symbol_files' = eff.files
            /\ UNCHANGED bp_load_enabled
            /\ FreeBreakpointsUnchanged
            /\ last' = SectionLookup(q, eff)

\* SpecSection: loads with every pair of replies, and the free events
NextSection ==
    \/ LoadSectionName
    \/ ZeldaArenaFreeEvent
    \/ SystemArenaFreeEvent
    \/ KaleidoClearOvlEvent

SpecSection == Init /\ [][NextSection]_vars


\* ------------------------------------------------------------- properties

\* C1: a load at an alloc_address that is already in the registry, from the
\* z64ovl command or from the Overlay_Load hook, raises "Already loaded",
\* requests no add-symbol-file and leaves the registry (and the host's symbol
\* files) as they were; the registry, keyed by address, so never holds a
\* second entry for an address.
C1_AlreadyLoadedRaises ==
    [][ (/\ last'.called = "load_z64overlay_object"
         /\ last'.alloc \in DOMAIN loaded_z64overlay_objects)
        => /\ last'.raised = "Exception: Already loaded"
           /\ last'.calls = <<>>
           /\ loaded_z64overlay_objects' = loaded_z64overlay_objects
           /\ symbol_files' = symbol_files ]_vars

\* C1: `z64ovl <name>` for an overlay whose address is already registered
C1_Witness ==
    /\ last.op = "z64ovl"
    /\ last.called = "load_z64overlay_object"
    /\ last.raised = "Exception: Already loaded"
    /\ last.alloc \in DOMAIN loaded_z64overlay_objects

\* C2: unload_z64overlay_object at an address that is not in the registry
\* does nothing: it returns without raising, requests no remove-symbol-file
\* and leaves the registry and the host's symbol files as they were, in every
\* reachable state (so also right after an unload of the same address).
C2_UnloadAbsentIsNoOp ==
    [][ (/\ last'.called = "unload_z64overlay_object"
         /\ last'.alloc \notin DOMAIN loaded_z64overlay_objects)
        => /\ last'.raised = ""
           /\ last'.ret = "False"
           /\ last'.calls = <<>>
           /\ loaded_z64overlay_objects' = loaded_z64overlay_objects
           /\ symbol_files' = symbol_files ]_vars

\* C2: a free event for an address that is not registered while other
\* overlays are
C2_Witness ==
    /\ last.called = "unload_z64overlay_object"
    /\ last.alloc \notin DOMAIN loaded_z64overlay_objects
    /\ last.calls = <<>>
    /\ last.raised = ""
    /\ loaded_z64overlay_objects # EmptyRegistry

\* C3: unload_z64overlay_object at an address A that is in the registry
\* requests exactly one remove-symbol-file, naming the path recorded for A;
\* afterwards A is not in the registry and every other entry is as before.
C3_UnloadPresent ==
    [][ (/\ last'.called = "unload_z64overlay_object"
         /\ last'.alloc \in DOMAIN loaded_z64overlay_objects)
        => /\ Len(last'.calls) = 1
           /\ last'.calls[1].cmd = "remove-symbol-file"
           /\ last'.calls[1].file = loaded_z64overlay_objects[last'.alloc]
           /\ DOMAIN loaded_z64overlay_objects' =
                  (DOMAIN loaded_z64overlay_objects) \ {last'.alloc}
           /\ \A a \in DOMAIN loaded_z64overlay_objects' :
                  loaded_z64overlay_objects'[a] = loaded_z64overlay_objects[a] ]_vars

\* C3: an overlay is unloaded while an overlay of another object file stays
C3_Witness ==
    /\ last.called = "unload_z64overlay_object"
    /\ Len(last.calls) = 1
    /\ last.raised = ""
    /\ \E a \in DOMAIN loaded_z64overlay_objects :
           loaded_z64overlay_objects[a] # last.calls[1].file

\* C4, as stated: when the add-symbol-file request of a load fails, the
\* registry holds no entry for that address afterwards.
C4_NoEntryWhenAddFails ==
    (/\ last.called = "load_z64overlay_object"
     /\ last.calls # <<>>
     /\ last.raised = "gdb.error")
    => last.alloc \notin DOMAIN loaded_z64overlay_objects

\* C5: bp_load starts disabled and only `z64ovl AUTO ON` enables it; an
\* Overlay_Load event while it is disabled runs nothing; while it is enabled
\* an event whose frame lacks one of the two variables raises ValueError and
\* changes nothing, and every other event is load_z64overlay_object for the
\* frame's (allocatedRamAddr, vramStart). For an address other than 0 that is
\* what the manual command does for a table entry with these two values; for
\* address 0 the manual command only prints that the overlay is not loaded,
\* and the event loads. For an address that is not in the registry the event
\* adds an entry keyed by allocatedRamAddr once the lookups have succeeded
\* (with the request's path), and otherwise raises and adds none.
C5_AutoLoadOnlyWhileEnabled ==
    /\ ~bp_load_enabled
    /\ [][ /\ (~bp_load_enabled /\ bp_load_enabled')
              => (last'.op = "z64ovl" /\ StrUpper(last'.arg) = S_AUTO_ON)
           /\ (last'.op = "Overlay_Load" /\ ~bp_load_enabled)
              => /\ ~last'.handled
                 /\ last'.calls = <<>>
                 /\ loaded_z64overlay_objects' = loaded_z64overlay_objects
                 /\ symbol_files' = symbol_files
           /\ (last'.op = "Overlay_Load" /\ bp_load_enabled /\ last'.called = "")
              => /\ last'.handled
                 /\ last'.raised = "ValueError"
                 /\ last'.calls = <<>>
                 /\ last'.printed = <<>>
                 /\ loaded_z64overlay_objects' = loaded_z64overlay_objects
                 /\ symbol_files' = symbol_files
           /\ (last'.op = "Overlay_Load" /\ bp_load_enabled /\ last'.called # "")
              => /\ last'.handled
                 /\ last'.called = "load_z64overlay_object"
                 /\ \E h \in Hosts :
                      \E proc \in {load_z64overlay_object(
                                        loaded_z64overlay_objects, symbol_files,
                                        last'.alloc, last'.vram, h)} :
                          /\ loaded_z64overlay_objects' = proc.reg
                          /\ symbol_files' = proc.files
                          /\ last'.raised = proc.raised
                          /\ last'.calls = proc.calls
                          /\ last'.printed = proc.printed
                          /\ \E manual \in {LoadZ64OvlCmd_invoke(
                                        loaded_z64overlay_objects, symbol_files,
                                        bp_load_enabled, A_ACTOR_EN_A, "game",
                                        [loadedRamAddr |-> last'.alloc,
                                         vramStart |-> last'.vram], h).eff} :
                                 IF last'.alloc # 0
                                 THEN manual = proc
                                 ELSE /\ manual.raised = ""
                                      /\ manual.calls = <<>>
                                      /\ manual.reg = loaded_z64overlay_objects
                                      /\ manual.files = symbol_files
                                      /\ manual.printed =
                                           <<"ERROR: Requested overlay is not currently loaded">>
           /\ (/\ last'.op = "Overlay_Load"
               /\ bp_load_enabled
               /\ last'.alloc \notin DOMAIN loaded_z64overlay_objects)
              => IF last'.calls # <<>>
                 THEN loaded_z64overlay_objects' =
                          RegistryPut(loaded_z64overlay_objects, last'.alloc,
                                      last'.calls[1].file)
                 ELSE /\ last'.raised # ""
                      /\ loaded_z64overlay_objects' = loaded_z64overlay_objects
         ]_vars

\* C5: a handled Overlay_Load event has added the entry of its address
C5_Witness ==
    /\ last.op = "Overlay_Load"
    /\ last.handled
    /\ last.raised = ""
    /\ bp_load_enabled
    /\ last.alloc \in DOMAIN loaded_z64overlay_objects
    /\ last.calls # <<>>
    /\ loaded_z64overlay_objects[last.alloc] = last.calls[1].file

\* C5, as stated: ... while enabled, each Overlay_Load event whose address,
\* read from the frame, is not in the registry adds an entry keyed by that
\* address.
C5_AsStated ==
    /\ ~bp_load_enabled
    /\ [][ /\ (~bp_load_enabled /\ bp_load_enabled')
              => (last'.op = "z64ovl" /\ StrUpper(last'.arg) = S_AUTO_ON)
           /\ (last'.op = "Overlay_Load" /\ ~bp_load_enabled)
              => /\ last'.calls = <<>>
                 /\ loaded_z64overlay_objects' = loaded_z64overlay_objects
           /\ (/\ last'.op = "Overlay_Load"
               /\ bp_load_enabled
               /\ last'.called = "load_z64overlay_object"
               /\ last'.alloc \notin DOMAIN loaded_z64overlay_objects)
              => last'.alloc \in DOMAIN loaded_z64overlay_objects'
         ]_vars

\* C6: `z64ovl AUTO ON` and `z64ovl AUTO OFF`, in any letter case, set
\* bp_load.enabled and nothing else: the registry, the host's symbol files
\* and the three free breakpoints stay as they were, and a free event for a
\* registered address still unloads it while bp_load is disabled.
C6_AutoChangesOnlyTheFlag ==
    [][ /\ (/\ last'.op = "z64ovl"
            /\ Len(last'.arg) \in {Len(S_AUTO_ON), Len(S_AUTO_OFF)}
            /\ StrUpper(last'.arg) \in {S_AUTO_ON, S_AUTO_OFF})
           => /\ bp_load_enabled' = (StrUpper(last'.arg) = S_AUTO_ON)
              /\ loaded_z64overlay_objects' = loaded_z64overlay_objects
              /\ symbol_files' = symbol_files
              /\ last'.calls = <<>>
              /\ last'.raised = ""
              /\ bp_free_enabled' = bp_free_enabled
              /\ bp_system_free_enabled' = bp_system_free_enabled
              /\ bp_kaleido_enabled' = bp_kaleido_enabled
        /\ (/\ last'.op \in {"ZeldaArena_FreeDebug", "SystemArena_FreeDebug",
                             "KaleidoManager_ClearOvl"}
            /\ last'.called = "unload_z64overlay_object"
            /\ ~bp_load_enabled
            /\ last'.alloc \in DOMAIN loaded_z64overlay_objects)
           => /\ last'.handled
              /\ last'.alloc \notin DOMAIN loaded_z64overlay_objects'
              /\ Len(last'.calls) = 1
              /\ last'.calls[1].cmd = "remove-symbol-file"
      ]_vars

\* C6: `z64ovl Auto Off` while overlays are loaded
C6_Witness ==
    /\ last.op = "z64ovl"
    /\ last.arg = A_Auto_Off
    /\ ~bp_load_enabled
    /\ loaded_z64overlay_objects # EmptyRegistry
    /\ symbol_files # EmptyBag

\* C7, as stated: every Overlay_Load event handled while bp_load is enabled
\* ends with BreakpointOverlayLoad.stop returning False.
C7_StopReturnsFalse ==
    (last.op = "Overlay_Load" /\ last.handled) => last.ret = "False"

\* C8: the add-symbol-file request of a load names .text, .data, .rodata and
\* .bss, each once and in this order, and the offset it gives for each is
\* alloc_address + (section_link_address - vram_address), the link address
\* being the host's printf answer for the section's symbol; a section linked
\* at vram_address gets alloc_address.
C8_SectionOffsets ==
    \A k \in 1..Len(last.calls) :
        last.calls[k].cmd = "add-symbol-file"
        => /\ [i \in 1..Len(last.calls[k].s) |-> last.calls[k].s[i].name]
                  = <<".text", ".data", ".rodata", ".bss">>
           /\ Len(last.links) = Len(last.calls[k].s)
           /\ \A i \in 1..Len(last.calls[k].s) :
                  /\ IntBase16(last.links[i]).ok
                  /\ IntBase16(last.calls[k].s[i].addr).ok
                  /\ IntBase16(last.calls[k].s[i].addr).val
                         = last.alloc + (IntBase16(last.links[i]).val - last.vram)
                  /\ IntBase16(last.links[i]).val = last.vram
                         => last.calls[k].s[i].addr = FormatHex(last.alloc)

\* C8: a request whose .text is linked at vram_address and whose .data is
\* linked below it
C8_Witness ==
    /\ last.calls # <<>>
    /\ last.calls[1].cmd = "add-symbol-file"
    /\ last.calls[1].s[1].addr = FormatHex(last.alloc)
    /\ Head(last.calls[1].s[2].addr) = "-"

\* C9: for an argument with a prefix before its first underscore that is no
\* alias and no AUTO sub-command. z64ovl: the upper-cased prefix selects the
\* table (GAMESTATE, ACTOR, EFFECT), then the enum lookup gives the index or
\* the not-found message; another prefix gives the unsupported-type message
\* without any lookup, whether or not the name resolves. ovl: the enum lookup
\* comes first, and a name that does not resolve gives the not-found message
\* whatever its prefix; for a name that resolves the prefix selects the table
\* and another prefix raises the unsupported-type exception.
C9_PrefixDispatch ==
    LET known == [a \in {A_ACTOR_EN_A, A_ACTOR_NOPE, A_gamestate_x, A_Effect_Ss_D} |->
                    IF a \in {A_ACTOR_EN_A, A_ACTOR_NOPE} THEN "gActorOverlayTable"
                    ELSE IF a = A_gamestate_x THEN "gGameStateOverlayTable"
                    ELSE "gEffectSsOverlayTable"]
        resolves == StrUpper(last.arg) \in DOMAIN Enums[last.elf]
        notfound == <<"ERROR: Provided enum value could not be found in the elf">>
    IN
    /\ (last.op = "z64ovl" /\ last.arg \in DOMAIN known)
       => /\ last.table = known[last.arg]
          /\ last.lookup
          /\ IF resolves
             THEN /\ last.kind = "load"
                  /\ last.index = Enums[last.elf][StrUpper(last.arg)]
             ELSE /\ last.kind = "notfound"
                  /\ last.printed = notfound
                  /\ last.raised = ""
    /\ (last.op = "z64ovl" /\ last.arg = A_FOO_BAR)
       => /\ last.kind = "unsupported"
          /\ ~last.lookup
          /\ last.printed = <<"ERROR: Type of enum provided is not supported">>
          /\ last.raised = ""
          /\ last.calls = <<>>
    /\ (last.op = "ovl" /\ last.arg \in (DOMAIN known) \cup {A_FOO_BAR})
       => /\ last.lookup
          /\ ~resolves
             => /\ last.kind = "notfound"
                /\ last.printed = notfound
                /\ last.raised = ""
          /\ (resolves /\ last.arg \in DOMAIN known)
             => /\ last.kind = "load"
                /\ last.table = known[last.arg]
                /\ last.index = Enums[last.elf][StrUpper(last.arg)]
          /\ (resolves /\ last.arg = A_FOO_BAR)
             => /\ last.kind = "unsupported"
                /\ last.raised = "Exception: Type of enum provided is not supported"
                /\ last.calls = <<>>

\* C9: `ovl FOO_BAR` against an elf in which FOO_BAR is an enum value
C9_Witness ==
    /\ last.op = "ovl"
    /\ last.arg = A_FOO_BAR
    /\ last.elf = "more"
    /\ last.kind = "unsupported"
    /\ last.raised = "Exception: Type of enum provided is not supported"

\* C9, as stated: in both commands a GAMESTATE, ACTOR or EFFECT prefix selects
\* the table and FOO_BAR gives the unsupported-type error, whether or not the
\* name resolves.
C9_AsStated ==
    /\ (/\ last.op \in {"z64ovl", "ovl"}
        /\ last.arg \in {A_ACTOR_EN_A, A_ACTOR_NOPE, A_gamestate_x, A_Effect_Ss_D}
        /\ last.kind = "load")
       => last.table = (IF last.arg \in {A_ACTOR_EN_A, A_ACTOR_NOPE}
                        THEN "gActorOverlayTable"
                        ELSE IF last.arg = A_gamestate_x THEN "gGameStateOverlayTable"
                        ELSE "gEffectSsOverlayTable")
    /\ (last.op \in {"z64ovl", "ovl"} /\ last.arg = A_FOO_BAR)
       => last.kind = "unsupported"

\* C10: in both commands and in any letter case, PAUSE, KALEIDO and
\* KALEIDO_SCOPE select gKaleidoMgrOverlayTable[0] and ACTOR_PLAYER selects
\* gKaleidoMgrOverlayTable[1], without the enum lookup (so ACTOR_PLAYER never
\* goes to gActorOverlayTable).
C10_SpecialAliases ==
    /\ (/\ last.op \in {"z64ovl", "ovl"}
        /\ last.arg \in {A_Pause, A_PAUSE, A_kaleido, A_Kaleido_Scope})
       => /\ last.kind = "load"
          /\ last.table = "gKaleidoMgrOverlayTable"
          /\ last.index = 0
          /\ ~last.lookup
    /\ (/\ last.op \in {"z64ovl", "ovl"}
        /\ last.arg \in {A_actor_player, A_ACTOR_PLAYER})
       => /\ last.kind = "load"
          /\ last.table = "gKaleidoMgrOverlayTable"
          /\ last.index = 1
          /\ ~last.lookup

\* C10: `z64ovl actor_player` has loaded the overlay of gKaleidoMgrOverlayTable[1]
C10_Witness ==
    /\ last.op = "z64ovl"
    /\ last.arg = A_actor_player
    /\ last.table = "gKaleidoMgrOverlayTable"
    /\ last.index = 1
    /\ last.calls # <<>>
    /\ last.raised = ""

\* C11: a command that ends in a diagnostic has no side effects. When the
\* enum name does not resolve, or the overlay's loadedRamAddr is 0, z64ovl
\* and ovl print the diagnostic and return; for an unsupported prefix z64ovl
\* prints the diagnostic and returns, while ovl (which gets there only for a
\* name that resolves) raises the unsupported-type exception. In each case no
\* add-symbol-file or remove-symbol-file is requested and the registry, the
\* host's symbol files and bp_load.enabled stay as they were.
C11_DiagnosticsNoSideEffects ==
    [][ (/\ last'.op \in {"z64ovl", "ovl"}
         /\ \/ last'.kind \in {"notfound", "unsupported"}
            \/ (last'.kind = "load" /\ last'.alloc = 0))
        => /\ last'.calls = <<>>
           /\ loaded_z64overlay_objects' = loaded_z64overlay_objects
           /\ symbol_files' = symbol_files
           /\ bp_load_enabled' = bp_load_enabled
           /\ IF last'.op = "ovl" /\ last'.kind = "unsupported"
              THEN /\ last'.raised = "Exception: Type of enum provided is not supported"
                   /\ last'.printed = <<>>
              ELSE /\ last'.raised = ""
                   /\ last'.ret = "None"
                   /\ last'.printed =
                        IF last'.kind = "notfound"
                        THEN <<"ERROR: Provided enum value could not be found in the elf">>
                        ELSE IF last'.kind = "unsupported"
                        THEN <<"ERROR: Type of enum provided is not supported">>
                        ELSE <<"ERROR: Requested overlay is not currently loaded">>
      ]_vars

\* C11: `ovl` for an overlay that is not loaded, while overlays are
\* registered and automatic loading is on
C11_Witness ==
    /\ last.op = "ovl"
    /\ last.kind = "load"
    /\ last.alloc = 0
    /\ last.printed = <<"ERROR: Requested overlay is not currently loaded">>
    /\ last.raised = ""
    /\ bp_load_enabled
    /\ loaded_z64overlay_objects # EmptyRegistry

\* C11, as stated: in both commands an unresolved enum name, an unsupported
\* prefix and a zero loadedRamAddr each end in a printed diagnostic, without
\* raising and without side effects.
C11_AsStated ==
    [][ (/\ last'.op \in {"z64ovl", "ovl"}
         /\ \/ last'.kind \in {"notfound", "unsupported"}
            \/ (last'.kind = "load" /\ last'.alloc = 0))
        => /\ last'.raised = ""
           /\ Len(last'.printed) = 1
           /\ last'.calls = <<>>
           /\ loaded_z64overlay_objects' = loaded_z64overlay_objects
           /\ bp_load_enabled' = bp_load_enabled
      ]_vars

\* C12, as stated: `ovl` for an overlay that is loaded (loadedRamAddr is not
\* 0), when the host answers both `info symbol` queries, runs
\* AddOverlaySymbols to its end and issues exactly one add-symbol-file
\* request, read eagerly at base 0xFF000000, with offsets for .text, .data,
\* .rodata and .bss.
C12_LegacyIssuesOneAdd ==
    (/\ last.op = "ovl"
     /\ last.called = "AddOverlaySymbols"
     /\ last.raised # "gdb.error")
    => /\ last.raised = ""
       /\ Len(last.calls) = 1
       /\ last.calls[1].cmd = "add-symbol-file"
       /\ last.calls[1].readnow
       /\ last.calls[1].o = "0xFF000000"
       /\ Len(last.calls[1].s) = 4

\* The number of places where "in section " occurs in s
C13_Markers(s) ==
    Cardinality({i \in 1..Len(s) : StartsWithAt(s, S_in_section, i)})

\* C13: when the host's reply to `info symbol` is <sym> in section ..<name>,
\* with nothing, a line end, or " of <path>" after it, the section name the
\* linker symbols are built from is <name>; a reply in which "in section "
\* does not occur exactly once raises ValueError.
C13_SymbolInfoParsing ==
    last.op = "get_sym_section"
    => /\ (C13_Markers(last.text) = 1) <=> (last.raised = "")
       /\ (C13_Markers(last.text) # 1) <=> (last.raised = "ValueError")
       /\ \A h \in InfoSymbolHeads, t \in InfoSymbolTails,
             name \in {<<"c","o","d","e">>, <<"o","A">>, <<"o","f">>, <<".","b">>} :
            last.text = h \o S_in_section \o S_dotdot \o name \o t
            => /\ last.name = name
               /\ last.link = <<"_">> \o name
                     \o <<"S","e","g","m","e","n","t","T","e","x","t","S","t","a","r","t">>

\* C13: the reply "Play_Init in section ..code of /path/to/rom.elf" gave code
C13_Witness ==
    /\ last.op = "get_sym_section"
    /\ last.text = <<"P","l","a","y","_","I","n","i","t"," ","i","n"," ","s","e","c","t","i","o","n"," ",".",".","c","o","d","e"," ","o","f"," ","/","p","a","t","h","/","t","o","/","r","o","m",".","e","l","f">>
    /\ last.raised = ""
    /\ last.name = <<"c","o","d","e">>

\* C14: a free event of any of the three hooks (ZeldaArena_FreeDebug,
\* SystemArena_FreeDebug, KaleidoManager_ClearOvl) that carries a registered
\* address A removes A from the registry, whatever bp_load.enabled is; one
\* that carries an address that is not registered changes nothing; and a
\* load at A right after a free at A is never rejected as already loaded and,
\* when it returns, registers A again.
C14_LoadFreeLoad ==
    [][ /\ (/\ last'.op \in {"ZeldaArena_FreeDebug", "SystemArena_FreeDebug",
                             "KaleidoManager_ClearOvl"}
            /\ last'.called = "unload_z64overlay_object")
           => IF last'.alloc \in DOMAIN loaded_z64overlay_objects
              THEN /\ last'.alloc \notin DOMAIN loaded_z64overlay_objects'
                   /\ bp_load_enabled' = bp_load_enabled
              ELSE /\ loaded_z64overlay_objects' = loaded_z64overlay_objects
                   /\ symbol_files' = symbol_files
                   /\ bp_load_enabled' = bp_load_enabled
                   /\ last'.calls = <<>>
                   /\ last'.raised = ""
        /\ (/\ last.op \in {"ZeldaArena_FreeDebug", "SystemArena_FreeDebug",
                            "KaleidoManager_ClearOvl"}
            /\ last.called = "unload_z64overlay_object"
            /\ last'.called = "load_z64overlay_object"
            /\ last'.alloc = last.alloc)
           => /\ last'.raised # "Exception: Already loaded"
              /\ (last'.raised = "")
                     => last'.alloc \in DOMAIN loaded_z64overlay_objects'
      ]_vars

\* C14: with automatic loading off, KaleidoManager_ClearOvl has just removed
\* one registered overlay and left another
C14_Witness ==
    /\ last.op = "KaleidoManager_ClearOvl"
    /\ Len(last.calls) = 1
    /\ last.calls[1].cmd = "remove-symbol-file"
    /\ last.alloc \notin DOMAIN loaded_z64overlay_objects
    /\ ~bp_load_enabled
    /\ loaded_z64overlay_objects # EmptyRegistry

\* C15: when load_z64overlay_object, called for an address that is not in
\* the registry, raises before it reaches line 173 (it has not printed
\* "Reading ..."), because the section name, a linker symbol, the symbol at
\* vram_address or its source file could not be found, the exception leaves
\* the callback, no add-symbol-file is requested and the registry and the
\* host's symbol files are as before.
C15_ResolutionFailureKeepsState ==
    [][ (/\ last'.called = "load_z64overlay_object"
         /\ last'.alloc \notin DOMAIN loaded_z64overlay_objects
         /\ last'.raised # ""
         /\ \A i \in 1..Len(last'.printed) : last'.printed[i] # "Reading ...")
        => /\ last'.calls = <<>>
           /\ last'.ret = ""
           /\ loaded_z64overlay_objects' = loaded_z64overlay_objects
           /\ symbol_files' = symbol_files
           /\ bp_load_enabled' = bp_load_enabled
      ]_vars

\* C15: the source file of the symbol at vram_address was not found
\* (gdb.lookup_symbol gave None) while another overlay is registered
C15_Witness ==
    /\ last.called = "load_z64overlay_object"
    /\ last.raised = "AttributeError"
    /\ last.calls = <<>>
    /\ last.alloc \notin DOMAIN loaded_z64overlay_objects
    /\ loaded_z64overlay_objects # EmptyRegistry

\* Whether the load consulted get_section_by_addr: it says so before it does
C16_FellBack ==
    \E i \in 1..Len(last.printed) :
        last.printed[i] = "get_sym_section() failed, trying get_section_by_addr()"

\* C16: load_z64overlay_object consults get_section_by_addr exactly when
\* get_sym_section raised ValueError (the reply to `info symbol` came, and
\* "in section " does not occur exactly once in it). When get_sym_section
\* returned, the outcome is the same whatever `info file` would reply, and the
\* linker symbols are those of the section it named; a gdb.error of `info
\* symbol` leaves the call as it is; and when get_section_by_addr fails too,
\* its error is the one that leaves the call.
C16_SectionFallback ==
    (last.op = "load_z64overlay_object" /\ last.raised # "Exception: Already loaded")
    => /\ C16_FellBack
            <=> (~last.info_symbol.err /\ C13_Markers(last.info_symbol.out) # 1)
       /\ ~C16_FellBack
            => /\ \A f \in SectionFileReplies :
                     Resolve(last.alloc, last.vram,
                             [GoodHost EXCEPT !.info_symbol = last.info_symbol,
                                              !.info_file = f]).raised = last.raised
               /\ last.info_symbol.err => last.raised = "gdb.error"
               /\ ~last.info_symbol.err
                     => /\ last.raised = ""
                        /\ last.links =
                             [i \in 1..4 |->
                                LinkText(IF last.info_symbol = InfoSymbol_oA
                                         THEN <<"o","A">> ELSE <<"o","B">>,
                                         SectionType[i].linker_script_name, Symbols)]
       /\ C16_FellBack
            => /\ last.info_file.err => last.raised = "gdb.error"
               /\ last.info_file = InfoFileTabs => last.raised = "ValueError"
               /\ last.info_file = InfoFilePlain => last.raised = ""
               /\ (last.raised # "") => last.calls = <<>>

\* C16: `info symbol` named no section and `info file` listed the address
C16_Witness ==
    /\ last.op = "load_z64overlay_object"
    /\ last.info_symbol = InfoSymbolNone
    /\ last.info_file = InfoFilePlain
    /\ C16_FellBack
    /\ last.raised = ""
    /\ Len(last.calls) = 1
    /\ last.alloc \in DOMAIN loaded_z64overlay_objects
    /\ loaded_z64overlay_objects[last.alloc] = last.calls[1].file

\* What each line of InfoFileLines says: whether it is of the form
\* <start> - <end> is <section>, with start and end modulo 2^32
C17_Line(line) ==
    IF line = <<"0","x","0","0","0","0","1","0","6","0"," ","-"," ","0","x","0","0","0","0","2","0","0","0"," ","i","s"," ",".",".","b","o","o","t">>
        THEN [listed |-> TRUE, start |-> 4192, end |-> 8192, section |-> <<".",".","b","o","o","t">>]
    ELSE IF line = <<"0","x","8"," ","-"," ","0","x","c"," ","i","s"," ",".",".","o","A">>
        THEN [listed |-> TRUE, start |-> 8, end |-> 12, section |-> <<".",".","o","A">>]
    ELSE IF line = <<"0","x","c"," ","-"," ","0","x","c"," ","i","s"," ",".",".","e">>
        THEN [listed |-> TRUE, start |-> 12, end |-> 12, section |-> <<".",".","e">>]
    ELSE IF line = <<"0","x","f","f","f","f","f","f","f","f","0","0","0","0","0","0","0","8"," ","-"," ","0","x","f","f","f","f","f","f","f","f","0","0","0","0","0","0","1","0"," ","i","s"," ",".",".","h","i">>
        THEN [listed |-> TRUE, start |-> 8, end |-> 16, section |-> <<".",".","h","i">>]
    ELSE IF line = <<"0","X","8"," ","-"," ","0","X","C"," ","i","s"," ",".",".","U","P">>
        THEN [listed |-> TRUE, start |-> 8, end |-> 12, section |-> <<".",".","U","P">>]
    ELSE IF line = <<"0","x","8"," ","-"," ","0","x","1","0"," ","i","s"," ">>
        THEN [listed |-> TRUE, start |-> 8, end |-> 16, section |-> <<>>]
    ELSE IF line = <<"0","x","c"," ","-"," ","0","x","8"," ","i","s"," ",".",".","r","e","v">>
        THEN [listed |-> TRUE, start |-> 12, end |-> 8, section |-> <<".",".","r","e","v">>]
    ELSE [listed |-> FALSE, start |-> 0, end |-> 0, section |-> <<>>]

\* The lines of the last reply that list a range containing the address
C17_Hits ==
    {i \in 1..Len(last.lines) :
        /\ C17_Line(last.lines[i]).listed
        /\ C17_Line(last.lines[i]).start <= last.addr
        /\ last.addr < C17_Line(last.lines[i]).end}

\* C17: get_section_by_addr(addr) returns the section of the first line
\* <start> - <end> is <section> of `info file` with
\* start mod 2^32 <= addr < end mod 2^32 (so an empty range holds no address
\* and the end of a range is outside it), ignoring the lines that are not of
\* that form, and raises ValueError when there is no such line.
C17_SectionByAddr ==
    last.op = "get_section_by_addr"
    => IF C17_Hits = {}
       THEN last.raised = "ValueError"
       ELSE /\ last.raised = ""
            /\ last.section = C17_Line(last.lines[Min(C17_Hits)]).section

\* C17: with the line 0x00001060 - 0x00002000 is ..boot after a line that is
\* no range, 0x1500 is in ..boot
C17_Witness ==
    /\ last.op = "get_section_by_addr"
    /\ last.lines = <<<<"E","n","t","r","y"," ","p","o","i","n","t",":"," ","0","x","8">>,
                      <<"0","x","0","0","0","0","1","0","6","0"," ","-"," ","0","x","0","0","0","0","2","0","0","0"," ","i","s"," ",".",".","b","o","o","t">>>>
    /\ last.addr = 5376
    /\ last.raised = ""
    /\ last.section = <<".",".","b","o","o","t">>

\* C18, as stated: `z64ovl` with an argument that has no character before
\* its first "_" (the empty argument, or one that starts with "_") prints the
\* unsupported-type diagnostic and returns, without raising and without an
\* add-symbol-file or remove-symbol-file request.
C18_EmptyPrefixUnsupported ==
    (/\ last.op = "z64ovl"
     /\ StrFind(last.arg \o <<"_">>, <<"_">>) = 1)
    => /\ last.raised = ""
       /\ last.printed = <<"ERROR: Type of enum provided is not supported">>
       /\ last.calls = <<>>

\* The host holds each object file as many times as the registry names it
C19_Balance ==
    \A p \in BagToSet(symbol_files)
               \cup {loaded_z64overlay_objects[a] : a \in DOMAIN loaded_z64overlay_objects} :
        CopiesIn(p, symbol_files) =
            Cardinality({a \in DOMAIN loaded_z64overlay_objects :
                            loaded_z64overlay_objects[a] = p})

\* C19: while every lookup and request of the host succeeds, the symbol
\* files the host holds (those added by add-symbol-file and not yet removed
\* by remove-symbol-file) are as many as the registry has entries, path by
\* path: a step issues at most one request; an add-symbol-file adds one file
\* and one entry with that path; a remove-symbol-file names the path of the
\* entry it deletes, which is the path of the add that made it; and a step
\* without a request changes neither.
C19_AddsMinusRemoves ==
    /\ [](C19_Balance
          /\ BagCardinality(symbol_files) = Cardinality(DOMAIN loaded_z64overlay_objects))
    /\ [][ /\ Len(last'.calls) <= 1
           /\ (last'.calls = <<>>)
                => /\ symbol_files' = symbol_files
                   /\ loaded_z64overlay_objects' = loaded_z64overlay_objects
           /\ (last'.calls # <<>> /\ last'.calls[1].cmd = "add-symbol-file")
                => /\ last'.raised = ""
                   /\ last'.alloc \notin DOMAIN loaded_z64overlay_objects
                   /\ DOMAIN loaded_z64overlay_objects' =
                          DOMAIN loaded_z64overlay_objects \cup {last'.alloc}
                   /\ loaded_z64overlay_objects'[last'.alloc] = last'.calls[1].file
                   /\ symbol_files' = symbol_files (+) SetToBag({last'.calls[1].file})
           /\ (last'.calls # <<>> /\ last'.calls[1].cmd = "remove-symbol-file")
                => /\ last'.raised = ""
                   /\ last'.alloc \in DOMAIN loaded_z64overlay_objects
                   /\ last'.calls[1].file = loaded_z64overlay_objects[last'.alloc]
                   /\ DOMAIN loaded_z64overlay_objects' =
                          DOMAIN loaded_z64overlay_objects \ {last'.alloc}
                   /\ symbol_files' = symbol_files (-) SetToBag({last'.calls[1].file})
           /\ \A a \in DOMAIN loaded_z64overlay_objects \cap DOMAIN loaded_z64overlay_objects' :
                  loaded_z64overlay_objects'[a] = loaded_z64overlay_objects[a]
         ]_vars

\* C19: of two overlays of the same object file, one has just been removed
\* and the host still holds the file once
C19_Witness ==
    /\ Len(last.calls) = 1
    /\ last.calls[1].cmd = "remove-symbol-file"
    /\ Cardinality(DOMAIN loaded_z64overlay_objects) = 1
    /\ CopiesIn(last.calls[1].file, symbol_files) = 1
    /\ \A a \in DOMAIN loaded_z64overlay_objects :
           loaded_z64overlay_objects[a] = last.calls[1].file

\* C20: when the remove-symbol-file request of unload_z64overlay_object
\* fails, the entry is gone all the same (it was deleted before the request):
\* the address is not in the registry afterwards, the other entries are
\* untouched, and a load at that address right after it is not rejected as
\* already loaded.
C20_UnloadDeletesBeforeRemove ==
    [][ /\ (/\ last'.called = "unload_z64overlay_object"
            /\ last'.raised = "gdb.error")
           => /\ last'.alloc \in DOMAIN loaded_z64overlay_objects
              /\ last'.calls =
                     <<RemoveSymbolFile(loaded_z64overlay_objects[last'.alloc])>>
              /\ DOMAIN loaded_z64overlay_objects' =
                     DOMAIN loaded_z64overlay_objects \ {last'.alloc}
              /\ \A a \in DOMAIN loaded_z64overlay_objects' :
                     loaded_z64overlay_objects'[a] = loaded_z64overlay_objects[a]
              /\ symbol_files' = symbol_files
        /\ (/\ last.called = "unload_z64overlay_object"
            /\ last.raised = "gdb.error"
            /\ last'.called = "load_z64overlay_object"
            /\ last'.alloc = last.alloc)
           => last'.raised # "Exception: Already loaded"
      ]_vars

\* C20: remove-symbol-file failed for an overlay whose add-symbol-file had
\* failed, and the address has left the registry
C20_Witness ==
    /\ last.called = "unload_z64overlay_object"
    /\ last.raised = "gdb.error"
    /\ Len(last.calls) = 1
    /\ last.calls[1].cmd = "remove-symbol-file"
    /\ last.alloc \notin DOMAIN loaded_z64overlay_objects

====
